---- MODULE Spec2Model ----
(***************************************************************************)
(* Price & candle aggregation engine of bitcoin-tracker.                   *)
(*                                                                         *)
(*   CoinbaseApi  (services/coinbaseApi.js, the ECB-converting revision)   *)
(*   EcbApi       (src/services/ecbApi.js)                                 *)
(*                                                                         *)
(* A behaviour is one call of the facade.  Every `await fetch`              *)
(* is a suspension point: the request is appended to `log` when it is      *)
(* issued and the action that resumes the call draws the upstream's        *)
(* answer.  JavaScript numbers are modelled as non-negative rationals      *)
(* together with Infinity and NaN (rounding is not modelled).              *)
(***************************************************************************)
EXTENDS Integers, Sequences, FiniteSets, TLC

(***************************************************************************)
(* Bounds of the model.                                                    *)
(***************************************************************************)
MaxLen == 3          \* longest arbitrary candle series given to aggregateCandles
MaxFactor == 3       \* largest aggregation factor given to aggregateCandles directly
MaxObs == 2          \* largest number of observations in one FX response

(***************************************************************************)
(* JavaScript numbers: [k, n, d] with k = "fin" (the rational n/d in       *)
(* lowest terms, d > 0), "inf" (Infinity) or "nan" (NaN).                  *)
(***************************************************************************)
RECURSIVE GCD(_, _)
GCD(a, b) ==
  IF b = 0 THEN a ELSE GCD(b, a % b)

Fin(n, d) ==
  LET g == GCD(n, d) IN
  IF n = 0 THEN [k |-> "fin", n |-> 0, d |-> 1]
  ELSE [k |-> "fin", n |-> n \div g, d |-> d \div g]

N(i) ==
  Fin(i, 1)

Infinity ==
  [k |-> "inf", n |-> 1, d |-> 0]

NaN ==
  [k |-> "nan", n |-> 0, d |-> 0]

IsZero(x) ==
  x.k = "fin" /\ x.n = 0

IsFinite(x) ==
  x.k = "fin"

\* JavaScript truthiness of a number: 0 and NaN are falsy
Truthy(x) ==
  ~(IsZero(x) \/ x.k = "nan")

\* x * y
Mul(x, y) ==
  CASE x.k = "nan" \/ y.k = "nan" -> NaN
    [] x.k = "inf" -> IF IsZero(y) THEN NaN ELSE Infinity
    [] y.k = "inf" -> IF IsZero(x) THEN NaN ELSE Infinity
    [] OTHER -> Fin(x.n * y.n, x.d * y.d)

\* x / y
Div(x, y) ==
  CASE x.k = "nan" \/ y.k = "nan" -> NaN
    [] x.k = "inf" -> IF y.k = "inf" THEN NaN ELSE Infinity
    [] y.k = "inf" -> N(0)
    [] IsZero(y) -> IF IsZero(x) THEN NaN ELSE Infinity
    [] OTHER -> Fin(x.n * y.d, x.d * y.n)

\* x + y
Add(x, y) ==
  CASE x.k = "nan" \/ y.k = "nan" -> NaN
    [] x.k = "inf" \/ y.k = "inf" -> Infinity
    [] OTHER -> Fin(x.n * y.d + y.n * x.d, x.d * y.d)

\* x <= y (false when either is NaN)
Leq(x, y) ==
  CASE x.k = "nan" \/ y.k = "nan" -> FALSE
    [] y.k = "inf" -> TRUE
    [] x.k = "inf" -> FALSE
    [] OTHER -> x.n * y.d <= y.n * x.d

\* Math.max(x, y) and Math.min(x, y)
Max2(x, y) ==
  CASE x.k = "nan" \/ y.k = "nan" -> NaN
    [] OTHER -> IF Leq(x, y) THEN y ELSE x

Min2(x, y) ==
  CASE x.k = "nan" \/ y.k = "nan" -> NaN
    [] OTHER -> IF Leq(x, y) THEN x ELSE y

(***************************************************************************)
(* Currency codes and String.prototype.toUpperCase on them.                *)
(***************************************************************************)
Currencies ==
  {"USD", "usd", "EUR", "JPY"}

toUpperCase(c) ==
  IF c = "usd" THEN "USD" ELSE IF c = "eur" THEN "EUR" ELSE c

(***************************************************************************)
(* Dates are instants in whole seconds since the epoch.                    *)
(***************************************************************************)
SecondsPerDay == 86400

\* the instant `new Date()` gives during the call: 00:00 of day 400
NowChoices ==
  {400 * SecondsPerDay}

\* formatDate: the calendar day (YYYY-MM-DD) of an instant, as a day number
formatDate(date) ==
  date \div SecondsPerDay

(***************************************************************************)
(* CoinbaseApi.getBtcCandles: rows of the candle source into candles.      *)
(* A row of the JSON array is [isArray, items]; a candle row has           *)
(* items = <<time, low, high, open, close, volume>>.                       *)
(***************************************************************************)
Null ==
  [null |-> TRUE]

Row(items) ==
  [isArray |-> TRUE, items |-> items]

NotAnArray ==
  [isArray |-> FALSE, items |-> <<>>]

Reverse(s) ==
  [i \in 1..Len(s) |-> s[Len(s) + 1 - i]]

\* faulty variant: positions 1 and 2 are read as high and low
RowToCandleHighLow(row) ==
  IF ~row.isArray \/ Len(row.items) < 6
  THEN Null
  ELSE [time |-> row.items[1],
        low |-> N(row.items[3]),
        high |-> N(row.items[2]),
        open |-> N(row.items[4]),
        close |-> N(row.items[5]),
        volume |-> N(row.items[6])]

\* the callback of data.map(...)
RowToCandle(row) ==
  IF ~row.isArray \/ Len(row.items) < 6
  THEN Null
  ELSE [time |-> row.items[1],
        low |-> N(row.items[2]),
        high |-> N(row.items[3]),
        open |-> N(row.items[4]),
        close |-> N(row.items[5]),
        volume |-> N(row.items[6])]

\* faulty variant: the rows are left newest first
ParseCandlesUnreversed(data) ==
  IF Len(data) = 0
  THEN <<>>
  ELSE SelectSeq([i \in 1..Len(data) |-> RowToCandle(data[i])],
                 LAMBDA c : c # Null)

\* data.map(...).filter(c => c !== null).reverse()
ParseCandles(data) ==
  IF Len(data) = 0
  THEN <<>>
  ELSE Reverse(SelectSeq([i \in 1..Len(data) |-> RowToCandle(data[i])],
                         LAMBDA c : c # Null))

(***************************************************************************)
(* CoinbaseApi.aggregateCandles                                            *)
(***************************************************************************)
\* the two halves of a sequence of two or more elements
Front(s) ==
  SubSeq(s, 1, Len(s) \div 2)

Back(s) ==
  SubSeq(s, Len(s) \div 2 + 1, Len(s))

\* Math.max(...group.map(c => c.high))
RECURSIVE MaxHigh(_)
MaxHigh(group) ==
  IF Len(group) = 1 THEN group[1].high
  ELSE Max2(MaxHigh(Front(group)), MaxHigh(Back(group)))

\* Math.min(...group.map(c => c.low))
RECURSIVE MinLow(_)
MinLow(group) ==
  IF Len(group) = 1 THEN group[1].low
  ELSE Min2(MinLow(Front(group)), MinLow(Back(group)))

\* group.reduce((sum, c) => sum + c.volume, sum): the accumulator runs
\* through the front half, then through the back half; once it is NaN it
\* stays NaN
RECURSIVE SumVolume(_, _)
SumVolume(group, sum) ==
  IF Len(group) = 0 THEN sum
  ELSE IF Len(group) = 1 THEN Add(sum, group[1].volume)
  ELSE LET front == SumVolume(Front(group), sum) IN
       IF front.k = "nan" THEN NaN ELSE SumVolume(Back(group), front)

\* candles.slice(from, to), 0-based, `to` exclusive and clipped to the length
Slice(s, from, to) ==
  SubSeq(s, from + 1, IF to < Len(s) THEN to ELSE Len(s))

\* faulty variant: the high of the group's last candle instead of the maximum
AggregatedCandleLastHigh(group) ==
  [time |-> group[1].time,
   open |-> group[1].open,
   close |-> group[Len(group)].close,
   high |-> group[Len(group)].high,
   low |-> MinLow(group),
   volume |-> SumVolume(group, N(0))]

\* the candle built from one group
AggregatedCandle(group) ==
  [time |-> group[1].time,
   open |-> group[1].open,
   close |-> group[Len(group)].close,
   high |-> MaxHigh(group),
   low |-> MinLow(group),
   volume |-> SumVolume(group, N(0))]

\* faulty variant: a trailing group of fewer than aggregationFactor candles
\* is dropped
RECURSIVE AggregateFromFullGroups(_, _, _)
AggregateFromFullGroups(candles, aggregationFactor, i) ==
  IF i >= Len(candles) THEN <<>>
  ELSE LET group == Slice(candles, i, i + aggregationFactor) IN
       (IF Len(group) < aggregationFactor THEN <<>> ELSE <<AggregatedCandle(group)>>)
         \o AggregateFromFullGroups(candles, aggregationFactor, i + aggregationFactor)

\* for (let i = ...; i < candles.length; i += aggregationFactor)
RECURSIVE AggregateFrom(_, _, _)
AggregateFrom(candles, aggregationFactor, i) ==
  IF i >= Len(candles) THEN <<>>
  ELSE LET group == Slice(candles, i, i + aggregationFactor) IN
       (IF Len(group) = 0 THEN <<>> ELSE <<AggregatedCandle(group)>>)
         \o AggregateFrom(candles, aggregationFactor, i + aggregationFactor)

aggregateCandles(candles, aggregationFactor) ==
  IF Len(candles) = 0 THEN <<>>
  ELSE AggregateFrom(candles, aggregationFactor, 0)

\* faulty variant: the volume is left in USD
ConvertCandleVolumeKept(candle, exchangeRate) ==
  [time |-> candle.time,
   open |-> Mul(candle.open, exchangeRate),
   high |-> Mul(candle.high, exchangeRate),
   low |-> Mul(candle.low, exchangeRate),
   close |-> Mul(candle.close, exchangeRate),
   volume |-> candle.volume]

\* faulty variant: the low is left in USD
ConvertCandleLowKept(candle, exchangeRate) ==
  [time |-> candle.time,
   open |-> Mul(candle.open, exchangeRate),
   high |-> Mul(candle.high, exchangeRate),
   low |-> candle.low,
   close |-> Mul(candle.close, exchangeRate),
   volume |-> Mul(candle.volume, exchangeRate)]

\* the USD -> target conversion of one candle (the callback of usdCandles.map)
ConvertCandle(candle, exchangeRate) ==
  [time |-> candle.time,
   open |-> Mul(candle.open, exchangeRate),
   high |-> Mul(candle.high, exchangeRate),
   low |-> Mul(candle.low, exchangeRate),
   close |-> Mul(candle.close, exchangeRate),
   volume |-> Mul(candle.volume, exchangeRate)]

\* faulty variant: the empty series is converted like any other
NoCandlesNever(usdCandles) ==
  FALSE

\* if (!usdCandles || usdCandles.length === 0) return []
NoCandles(usdCandles) ==
  Len(usdCandles) = 0

\* faulty variant: the converted series is returned newest first
ConvertCandlesNewestFirst(usdCandles, exchangeRate) ==
  [i \in 1..Len(usdCandles) |->
     ConvertCandle(usdCandles[Len(usdCandles) + 1 - i], exchangeRate)]

\* usdCandles.map(candle => ({...candle, open: ..., ..., volume: ...}))
ConvertCandles(usdCandles, exchangeRate) ==
  [i \in 1..Len(usdCandles) |-> ConvertCandle(usdCandles[i], exchangeRate)]

(***************************************************************************)
(* The window plan of getBtcCandlesForTimeWindow (the switch statement).   *)
(***************************************************************************)
Windows ==
  {"1h", "24h", "7d", "30d", "1y"}

\* window codes a caller may pass, one of them unsupported
WindowCodes ==
  Windows \cup {"5y"}

Granularity(timeWindow) ==
  CASE timeWindow = "1h" -> 300
    [] timeWindow = "24h" -> 3600
    [] OTHER -> 86400

\* `start` of the (first) candle request
WindowStart(timeWindow, now) ==
  CASE timeWindow = "1h" -> now - 60 * 60
    [] timeWindow = "24h" -> now - 24 * 60 * 60
    [] timeWindow = "7d" -> now - 7 * 24 * 60 * 60
    [] timeWindow = "30d" -> now - 30 * 24 * 60 * 60
    [] timeWindow = "1y" -> now - 365 * 24 * 60 * 60

\* faulty variant: the year is split 185 days back
SixMonthsAgo185(now) ==
  now - 185 * 24 * 60 * 60

\* sixMonthsAgo
SixMonthsAgo(now) ==
  now - 180 * 24 * 60 * 60

\* `end` of the first candle request
FirstRequestEnd(timeWindow, now) ==
  IF timeWindow = "1y" THEN SixMonthsAgo(now) ELSE now

\* the series handed on as usdCandles, from the raw candles of the window
WindowCandles(timeWindow, rawCandles) ==
  CASE timeWindow = "24h" -> aggregateCandles(rawCandles, 2)
    [] timeWindow = "30d" -> aggregateCandles(rawCandles, 2)
    [] timeWindow = "1y" -> aggregateCandles(rawCandles, 30)
    [] OTHER -> rawCandles

(***************************************************************************)
(* What the upstream sources can answer.                                   *)
(***************************************************************************)
\* amounts of the spot source, the decimal string "u.cc" given in cents
SpotCents ==
  {0, 150, 6500000}

\* parseFloat of a decimal string given in cents
ParseAmount(cents) ==
  Fin(cents, 100)

\* lengths of the candle arrays the candle source answers with
RawLens ==
  {0, 1, 24, 31}

\* the price histories the candle source may hold
Seeds ==
  {1, 2}

BucketStart(t, granularity) ==
  (t \div granularity) * granularity

\* the row of the bucket starting at `time`; `seed` picks the price history
GenRow(time, granularity, seed) ==
  LET b == time \div granularity
      low == 1 + ((b * seed) % 3)
      open == low + ((b + seed) % 2)
      close == low + (((b \div 2) + seed) % 2)
      high == (IF open < close THEN close ELSE open) + (b % 2)
      volume == (b + seed) % 3
  IN Row(<<time, low, high, open, close, volume>>)

\* the n newest buckets up to `end`, newest first
GenRows(n, granularity, end, seed) ==
  [j \in 1..n |-> GenRow(BucketStart(end, granularity) - (j - 1) * granularity,
                         granularity, seed)]

\* the same rows with a non-array entry and a short row among them
WithMalformed(rows) ==
  <<NotAnArray>> \o rows \o <<Row(<<1, 2>>)>>

\* the first bucket that starts at `t` or later
BucketAtOrAfter(t, granularity) ==
  ((t + granularity - 1) \div granularity) * granularity

\* the n oldest buckets from `start` on, newest first
GenRowsFrom(n, granularity, start, seed) ==
  [j \in 1..n |-> GenRow(BucketAtOrAfter(start, granularity) + (n - j) * granularity,
                         granularity, seed)]

\* the arrays the candle source may answer a request with: the newest buckets
\* of the requested range, with or without malformed entries, or its oldest
\* buckets; newest first
CandleArrays(granularity, start, end) ==
  LET fit == {n \in RawLens :
                n = 0 \/ BucketStart(end, granularity) - (n - 1) * granularity >= start}
      rows == {GenRows(n, granularity, end, seed) : n \in fit, seed \in Seeds}
      oldest == {GenRowsFrom(n, granularity, start, 1) : n \in fit}
  IN rows \cup {WithMalformed(r) : r \in rows} \cup oldest

\* raw JSON values of an observation and parseFloat of them
ObsValues ==
  {[json |-> "number", n |-> 0, d |-> 1],
   [json |-> "number", n |-> 27, d |-> 25],
   [json |-> "number", n |-> 160, d |-> 1],
   [json |-> "null", n |-> 0, d |-> 1]}

parseFloat(v) ==
  IF v.json = "number" THEN Fin(v.n, v.d) ELSE NaN

\* the period-index keys of observations, which are strings, and parseInt
\* of them
IndexKeys ==
  <<"0", "1", "2", "3", "4", "5", "6", "7", "8", "9", "10">>

KeyOf(i) ==
  IndexKeys[i + 1]

parseInt(key) ==
  CHOOSE i \in 0..(Len(IndexKeys) - 1) : KeyOf(i) = key

\* the place of a key among the index keys compared as strings
\* ("0" < "1" < "10" < "2" < ...)
StringRank(key) ==
  CASE key = "0" -> 0
    [] key = "1" -> 1
    [] key = "10" -> 2
    [] OTHER -> parseInt(key) + 1

\* the observations maps of an FX response: period index -> raw value
ObservationMaps ==
  UNION {[{KeyOf(i) : i \in 0..(n - 1)} -> ObsValues] : n \in 1..MaxObs}

\* the keys put in the order of Array.prototype.sort with a comparator that
\* compares rank(a) and rank(b); the ranks of different keys differ
SortedKeys(keys, rank(_)) ==
  [i \in 1..Cardinality(keys) |->
     CHOOSE key \in keys : Cardinality({other \in keys : rank(other) < rank(key)}) = i - 1]

\* Object.keys of an object whose keys are integer indices: ascending
ObjectKeys(object) ==
  SortedKeys(DOMAIN object, parseInt)

\* faulty variant: `.sort()` without the comparator compares the keys as
\* strings
ObservationKeysAsStrings(observations) ==
  LET keys == ObjectKeys(observations) IN
  SortedKeys({keys[i] : i \in 1..Len(keys)}, StringRank)

\* Object.keys(observations).sort((a, b) => parseInt(a) - parseInt(b))
ObservationKeys(observations) ==
  LET keys == ObjectKeys(observations) IN
  SortedKeys({keys[i] : i \in 1..Len(keys)}, parseInt)

\* parseFloat(observations[latestKey][0]), latestKey being the last of the
\* sorted keys
LatestObservation(observations) ==
  LET observationKeys == ObservationKeys(observations)
      latestKey == observationKeys[Len(observationKeys)]
  IN parseFloat(observations[latestKey])

\* answers that are a transport/HTTP failure or an unparseable body
FailureKinds ==
  {"reject", "notOk", "badJson"}

\* answers that carry no observation
EmptyKinds ==
  {"emptyBody", "noDataSets", "noSeries", "noObservations"}

\* the branch of _getEurToCurrencyRate an answer takes, as recorded in the log
Outcome(kind) ==
  CASE kind \in EmptyKinds -> "empty"
    [] kind \in FailureKinds -> "failed"
    [] OTHER -> kind

(***************************************************************************)
(* State.                                                                  *)
(*   pc      "idle", "spot" (awaiting the spot source), "candles"          *)
(*           (awaiting the candle source), "fx" (awaiting the FX source),  *)
(*           "done"                                                        *)
(*   call    the facade call in progress and its arguments                 *)
(*   cb      locals of the CoinbaseApi method in progress                  *)
(*   fx      locals of EcbApi.getExchangeRate in progress; eurToBase and   *)
(*           eurToTarget hold what _getEurToCurrencyRate returned for the  *)
(*           base and for the target                                       *)
(*   log     the upstream requests issued by the call, in order, each with *)
(*           the answer it got                                             *)
(*   result  how the call ended                                            *)
(*   waited  how long the pending upstream request has gone without an     *)
(*           answer, in units of UpstreamSilent                            *)
(***************************************************************************)
VARIABLES pc, call, cb, fx, log, result, waited

\* the App component with the market-data cache: see "Market data" below
VARIABLES appCurrency, coinloreCache, gets, shown, clock, marketDataInterval

\* the App component with the price and the candle chart: see "Page" below
VARIABLES ui, fetches

serviceVars == <<pc, call, cb, fx, log, result, waited>>

marketVars == <<appCurrency, coinloreCache, gets, shown, clock, marketDataInterval>>

pageVars == <<ui, fetches>>

\* the currency list generator: see "Currency list" below
VARIABLES gen

\* CoinbaseApi.getBtcCandles called directly: see "getBtcCandles" below
VARIABLES parse

\* EcbApi._getEurToCurrencyRate called directly: see "Pivot query" below
VARIABLES pivot

\* CoinLoreApi.getBtcMarketData called directly: see "CoinLore" below
VARIABLES coinlore

toolVars == <<gen, parse, pivot, coinlore>>

appVars == <<marketVars, pageVars, toolVars>>

vars == <<serviceVars, appVars>>

NoCall ==
  [op |-> "none", currency |-> "", timeWindow |-> "", base |-> "", target |-> "",
   dated |-> FALSE, startDate |-> 0, endDate |-> 0, candles |-> <<>>,
   aggregationFactor |-> 0, now |-> 0]

NoCb ==
  [usdAmount |-> N(0), part |-> 0, firstHalf |-> <<>>, secondHalf |-> <<>>,
   rawCandles |-> <<>>,
   usdCandles |-> <<>>, start |-> 0, attempt |-> "", exchangeRate |-> N(0)]

NoFx ==
  [base |-> "", target |-> "", startPeriod |-> 0, endPeriod |-> 0,
   query |-> "", fallback |-> FALSE, eurToBase |-> N(0), eurToTarget |-> N(0)]

NoResult ==
  [status |-> "none", amount |-> N(0), rate |-> N(0), candles |-> <<>>, error |-> ""]

Ok(field, value) ==
  [NoResult EXCEPT !.status = "ok", ![field] = value]

Error(message) ==
  [NoResult EXCEPT !.status = "error", !.error = message]

SpotRequest ==
  [api |-> "spot", key |-> "BTC-USD", granularity |-> 0, start |-> 0, end |-> 0,
   out |-> "pending", value |-> N(0)]

CandleRequest(granularity, start, end) ==
  [api |-> "candles", key |-> "BTC-USD", granularity |-> granularity,
   start |-> start, end |-> end, out |-> "pending", value |-> N(0)]

FxRequest(currency, startPeriod, endPeriod) ==
  [api |-> "fx", key |-> currency, granularity |-> 0,
   start |-> startPeriod, end |-> endPeriod, out |-> "pending", value |-> N(0)]

\* the answer `out` recorded on the request in flight (the last one issued)
Answered(lg, out) ==
  [lg EXCEPT ![Len(lg)].out = out]

\* the same for the answer of the spot source, which carries the parsed amount
AnsweredWith(lg, out, value) ==
  [lg EXCEPT ![Len(lg)].out = out, ![Len(lg)].value = value]

(***************************************************************************)
(* Market data: the App component that shows CoinLore's market data        *)
(* through coinloreCache (fetchMarketData).                                *)
(*   appCurrency         the `currency` state of App                       *)
(*   coinloreCache       coinloreCache.current: cache key -> entry         *)
(*   gets                the calls of fetchMarketData so far, in order,    *)
(*                       each with its locals and how it ended             *)
(*   shown               marketCap, volume24h, changes, loadingMarketData  *)
(*   clock               Date.now(), in minutes                            *)
(*   marketDataInterval  the minute the refresh interval fires next        *)
(***************************************************************************)
\* bounds: calls of fetchMarketData in a behaviour, minutes of a behaviour
MaxGets == 3
MaxClock == 30

\* the currency ids the menu offers
AppCurrencies ==
  {"USD", "EUR"}

toLowerCase(c) ==
  CASE c = "USD" -> "usd"
    [] c = "EUR" -> "eur"
    [] OTHER -> c

\* `market_${currency.toLowerCase()}`
CacheKey(currency) ==
  "market_" \o toLowerCase(currency)

CacheKeys ==
  {CacheKey(c) : c \in AppCurrencies}

\* COINLORE_CACHE_DURATION, in milliseconds
COINLORE_CACHE_DURATION ==
  30 * 60 * 1000

\* Date.now(), in milliseconds
DateNow ==
  clock * 60 * 1000

\* a missing value: undefined entry, null change
None ==
  [none |-> TRUE]

\* { '1h': ..., '24h': ..., '7d': ... }
Changes(h1, h24, d7) ==
  ("1h" :> h1) @@ ("24h" :> h24) @@ ("7d" :> d7)

NoTimer ==
  -1

(***************************************************************************)
(* Page: the App component that shows the spot price and the candle chart  *)
(* (fetchPrice, fetchCandles).                                             *)
(*   ui       the state of App: currency, timeWindow, currentPrice,        *)
(*            loading, error, candles, loadingCandles, changes, and        *)
(*            whether the effects have run once                            *)
(*   fetches  the calls of fetchPrice and fetchCandles so far, in order,   *)
(*            each with the currency and window of its effect run          *)
(***************************************************************************)
\* bound: calls of fetchPrice and fetchCandles in a behaviour
MaxFetches == 4

(***************************************************************************)
(* getBtcCandles: CoinbaseApi.getBtcCandles called directly, answered with *)
(* arbitrary arrays of tuples.                                             *)
(*   parse  the call: its currency, the body of the answer, how the call   *)
(*          ended and the candles it returned                              *)
(***************************************************************************)
\* bound: tuples in an answer
MaxTuples == 4

NoParse ==
  [currency |-> "", answer |-> "none", data |-> <<>>, out |-> "none",
   candles |-> <<>>, error |-> ""]

(***************************************************************************)
(* Pivot query: EcbApi._getEurToCurrencyRate called directly, answered     *)
(* with arbitrary observations.                                            *)
(*   pivot  the call: its currency, the request awaited, the observations  *)
(*          of the answer as they appear in the body, how the call ended   *)
(*          and the rate it returned                                       *)
(***************************************************************************)
NoPivot ==
  [currency |-> "", awaiting |-> "none", answeredBy |-> "none", body |-> <<>>,
   out |-> "none", rate |-> N(0), error |-> ""]

(***************************************************************************)
(* CoinLore: CoinLoreApi.getBtcMarketData called directly.                 *)
(*   coinlore  the call: its currency, the request awaited, the ticker and *)
(*             the rates answer, how getExchangeRate ended, the exchange   *)
(*             rate, how the call ended and the object it returned         *)
(***************************************************************************)
NoCoinlore ==
  [currency |-> "", awaiting |-> "none", ticker |-> None, rates |-> None,
   rate |-> None, exchangeRate |-> 1, out |-> "none", marketData |-> None,
   error |-> ""]

(***************************************************************************)
(* Currency list: generateCurrencyList, in its two forms: the build script *)
(* (scripts/generate-ecb-currencies.js, "script") and the browser helper   *)
(* (utils/generateEcbCurrencyList.js, "helper").                           *)
(*   gen  the run of generateCurrencyList: which form runs, the index of   *)
(*        the currency under test, the request awaited, the requests made  *)
(*        for the currency under test with their answers, the results of   *)
(*        testCurrency so far, currenciesWithData and the returned list    *)
(***************************************************************************)
\* the head of the list the generator tests
POTENTIAL_ECB_CURRENCIES ==
  <<"USD", "JPY", "BGN">>

NoRun ==
  [form |-> "", i |-> 0, awaiting |-> "none", requests |-> <<>>, results |-> <<>>,
   currenciesWithData |-> <<>>, currencyList |-> <<>>]

Init ==
  /\ pc = "idle"
  /\ call = NoCall
  /\ cb = NoCb
  /\ fx = NoFx
  /\ log = <<>>
  /\ result = NoResult
  /\ appCurrency = "USD"
  /\ coinloreCache = [k \in CacheKeys |-> None]
  /\ gets = <<>>
  /\ shown = [marketCap |-> None, volume24h |-> None,
              changes |-> Changes(None, None, None), loadingMarketData |-> TRUE]
  /\ waited = 0
  /\ clock = 0
  /\ marketDataInterval = NoTimer
  /\ ui = [mounted |-> FALSE, currency |-> "USD", timeWindow |-> "24h",
           currentPrice |-> None, loading |-> TRUE, error |-> None,
           candles |-> <<>>, loadingCandles |-> FALSE,
           changes |-> [w \in Windows |-> None]]
  /\ fetches = <<>>
  /\ gen = NoRun
  /\ parse = NoParse
  /\ pivot = NoPivot
  /\ coinlore = NoCoinlore

\* CoinbaseApi and EcbApi keep no state between calls (their only fields are
\* the base URLs), so a behaviour is one call from the idle state
Ready ==
  pc = "idle"

(***************************************************************************)
(* EcbApi.getExchangeRate up to its first request.                         *)
(***************************************************************************)
\* days of the default range and of the fallback range
DefaultRangeDays == 30
FallbackRangeDays == 90

\* the frame of getExchangeRate(base, target, startDate, endDate) on entry
EnterExchangeRate(base, target, dated, startDate, endDate, now) ==
  LET sd == IF dated THEN startDate ELSE now - DefaultRangeDays * SecondsPerDay
      ed == IF dated THEN endDate ELSE now
      baseUpper == toUpperCase(base)
      targetUpper == toUpperCase(target)
  IN [base |-> baseUpper, target |-> targetUpper,
      startPeriod |-> formatDate(sd), endPeriod |-> formatDate(ed),
      query |-> IF baseUpper = "EUR" THEN "target" ELSE "base",
      fallback |-> FALSE, eurToBase |-> N(0), eurToTarget |-> N(0)]

\* base and target are both the pivot: no request is made
BothEur(frame) ==
  frame.base = "EUR" /\ frame.target = "EUR"

\* the currency of the request in progress
Queried(frame) ==
  IF frame.query = "base" THEN frame.base ELSE frame.target

\* the primary request of _getEurToCurrencyRate for the frame's current query
PrimaryRequest(frame) ==
  FxRequest(Queried(frame), frame.startPeriod, frame.endPeriod)

\* the request of _getEurToCurrencyRateFallback
FallbackRequest(frame, now) ==
  FxRequest(Queried(frame), formatDate(now - FallbackRangeDays * SecondsPerDay),
            formatDate(now))

(***************************************************************************)
(* How a call ends, and how getExchangeRate hands its rate to its caller.  *)
(***************************************************************************)
\* the call returns
Return(lg, field, value) ==
  /\ pc' = "done"
  /\ log' = lg
  /\ result' = Ok(field, value)

\* the call throws
Throw(lg, message) ==
  /\ pc' = "done"
  /\ log' = lg
  /\ result' = Error(message)

\* faulty variant: the USD amount is returned unconverted
SpotAfterRateUnconverted(lg, frame, exchangeRate) ==
  /\ cb' = [cb EXCEPT !.exchangeRate = exchangeRate]
  /\ fx' = frame
  /\ UNCHANGED call
  /\ IF ~Truthy(exchangeRate)
     THEN Throw(lg, "No exchange rate available from ECB")
     ELSE Return(lg, "amount", cb.usdAmount)

\* getBtcSpotPrice after `await ecbApi.getLatestRate('USD', currency)`;
\* `frame` is the frame getExchangeRate returned from
SpotAfterRate(lg, frame, exchangeRate) ==
  /\ cb' = [cb EXCEPT !.exchangeRate = exchangeRate]
  /\ fx' = frame
  /\ UNCHANGED call
  /\ IF ~Truthy(exchangeRate)
     THEN Throw(lg, "No exchange rate available from ECB")
     ELSE Return(lg, "amount", Mul(cb.usdAmount, exchangeRate))

\* convertCandlesFromUsd after `await ecbApi.getExchangeRate(...)` (attempt
\* "dated") or after `await ecbApi.getLatestRate(...)` (attempt "latest")
CandlesAfterRate(lg, frame, exchangeRate) ==
  /\ UNCHANGED call
  /\ IF Truthy(exchangeRate)
     THEN /\ cb' = [cb EXCEPT !.exchangeRate = exchangeRate]
          /\ fx' = frame
          /\ Return(lg, "candles", ConvertCandles(cb.usdCandles, exchangeRate))
     ELSE IF cb.attempt = "dated"
     THEN LET latest == EnterExchangeRate("USD", call.currency, FALSE, 0, 0, call.now) IN
          /\ cb' = [cb EXCEPT !.attempt = "latest"]
          /\ fx' = latest
          /\ pc' = "fx"
          /\ log' = Append(lg, PrimaryRequest(latest))
          /\ UNCHANGED result
     ELSE /\ UNCHANGED cb
          /\ fx' = frame
          /\ Throw(lg, "No exchange rate available")

\* getExchangeRate returns `rate` to whoever awaited it
RateReturned(lg, frame, rate) ==
  CASE call.op = "spot" -> SpotAfterRate(lg, frame, rate)
    [] call.op = "candles" -> CandlesAfterRate(lg, frame, rate)
    [] OTHER -> /\ UNCHANGED <<call, cb>>
                /\ fx' = frame
                /\ Return(lg, "rate", rate)

\* _getEurToCurrencyRate throws: every caller lets the error through
RateThrown(lg, message) ==
  /\ UNCHANGED <<call, cb, fx>>
  /\ Throw(lg, message)

\* faulty variant: the cross rate is rounded to a whole number
TriangulateRounded(eurToBase, eurToTarget) ==
  LET rate == Div(eurToTarget, eurToBase) IN
  IF rate.k = "fin" THEN N(rate.n \div rate.d) ELSE rate

\* case 3 of getExchangeRate: `rate = eurToTarget / eurToBase`
Triangulate(eurToBase, eurToTarget) ==
  Div(eurToTarget, eurToBase)

\* faulty variant: the triangulation is inverted (base over target)
PivotRateReturnedInverted(lg, eurToCurrency) ==
  IF fx.base = "EUR"
  THEN RateReturned(lg, [fx EXCEPT !.eurToTarget = eurToCurrency], eurToCurrency)
  ELSE IF fx.target = "EUR"
  THEN RateReturned(lg, [fx EXCEPT !.eurToBase = eurToCurrency],
                    Div(N(1), eurToCurrency))
  ELSE IF fx.query = "base"
  THEN LET frame == [fx EXCEPT !.query = "target", !.fallback = FALSE,
                               !.eurToBase = eurToCurrency] IN
       /\ fx' = frame
       /\ pc' = "fx"
       /\ log' = Append(lg, PrimaryRequest(frame))
       /\ UNCHANGED <<call, cb, result>>
  ELSE RateReturned(lg, [fx EXCEPT !.eurToTarget = eurToCurrency],
                    Div(fx.eurToBase, eurToCurrency))

\* _getEurToCurrencyRate returns eurToCurrency to getExchangeRate, which
\* computes `rate` (cases 1 to 3) or goes on to its second query
PivotRateReturned(lg, eurToCurrency) ==
  IF fx.base = "EUR"
  THEN RateReturned(lg, [fx EXCEPT !.eurToTarget = eurToCurrency], eurToCurrency)
  ELSE IF fx.target = "EUR"
  THEN RateReturned(lg, [fx EXCEPT !.eurToBase = eurToCurrency],
                    Div(N(1), eurToCurrency))
  ELSE IF fx.query = "base"
  THEN LET frame == [fx EXCEPT !.query = "target", !.fallback = FALSE,
                               !.eurToBase = eurToCurrency] IN
       /\ fx' = frame
       /\ pc' = "fx"
       /\ log' = Append(lg, PrimaryRequest(frame))
       /\ UNCHANGED <<call, cb, result>>
  ELSE RateReturned(lg, [fx EXCEPT !.eurToTarget = eurToCurrency],
                    Triangulate(fx.eurToBase, eurToCurrency))

(***************************************************************************)
(* EcbApi: the answers of the FX source.                                   *)
(***************************************************************************)
\* faulty variant: a failed primary request is retried over the widened range
FxFailsRetried ==
  /\ pc = "fx"
  /\ waited' = 0
  /\ UNCHANGED appVars
  /\ \E kind \in FailureKinds :
       IF fx.fallback
       THEN RateThrown(Answered(log, Outcome(kind)), "ECB API request failed")
       ELSE /\ fx' = [fx EXCEPT !.fallback = TRUE]
            /\ log' = Append(Answered(log, Outcome(kind)), FallbackRequest(fx, call.now))
            /\ UNCHANGED <<pc, call, cb, result>>

\* transport/HTTP failure or unparseable body, on the primary or the fallback request
FxFails ==
  /\ pc = "fx"
  /\ waited' = 0
  /\ UNCHANGED appVars
  /\ \E kind \in FailureKinds :
       RateThrown(Answered(log, Outcome(kind)), "ECB API request failed")

\* the primary request is answered without observations: the fallback is requested
FxEmpty ==
  /\ pc = "fx"
  /\ waited' = 0
  /\ UNCHANGED appVars
  /\ ~fx.fallback
  /\ \E kind \in EmptyKinds :
       /\ fx' = [fx EXCEPT !.fallback = TRUE]
       /\ log' = Append(Answered(log, Outcome(kind)), FallbackRequest(fx, call.now))
       /\ UNCHANGED <<pc, call, cb, result>>

\* the fallback request is answered without observations
FxFallbackEmpty ==
  /\ pc = "fx"
  /\ waited' = 0
  /\ UNCHANGED appVars
  /\ fx.fallback
  /\ \E kind \in EmptyKinds :
       RateThrown(Answered(log, Outcome(kind)), "No exchange rate data available")

\* either request is answered with observations
FxData ==
  /\ pc = "fx"
  /\ waited' = 0
  /\ UNCHANGED appVars
  /\ \E observations \in ObservationMaps :
       PivotRateReturned(Answered(log, "data"), LatestObservation(observations))

(***************************************************************************)
(* EcbApi.getExchangeRate called directly.                                 *)
(***************************************************************************)
CallGetExchangeRate ==
  /\ Ready
  /\ waited' = 0
  /\ UNCHANGED appVars
  /\ \E base \in Currencies, target \in Currencies, now \in NowChoices,
        dated \in BOOLEAN, timeWindow \in {"1h", "1y"} :
       LET startDate == IF dated THEN WindowStart(timeWindow, now) ELSE 0
           endDate == IF dated THEN now ELSE 0
           frame == EnterExchangeRate(base, target, dated, startDate, endDate, now)
       IN /\ (~dated => timeWindow = "1h")
          /\ call' = [NoCall EXCEPT !.op = "rate", !.base = base, !.target = target,
                                    !.dated = dated, !.startDate = startDate,
                                    !.endDate = endDate, !.now = now]
          /\ cb' = NoCb
          /\ fx' = frame
          /\ IF BothEur(frame)
             THEN Return(<<>>, "rate", N(1))
             ELSE /\ pc' = "fx"
                  /\ log' = <<PrimaryRequest(frame)>>
                  /\ result' = NoResult

(***************************************************************************)
(* CoinbaseApi.getBtcSpotPrice                                             *)
(***************************************************************************)
CallGetBtcSpotPrice ==
  /\ Ready
  /\ waited' = 0
  /\ UNCHANGED appVars
  /\ \E currency \in Currencies, now \in NowChoices :
       /\ call' = [NoCall EXCEPT !.op = "spot", !.currency = currency, !.now = now]
       /\ pc' = "spot"
       /\ cb' = NoCb
       /\ fx' = NoFx
       /\ log' = <<SpotRequest>>
       /\ result' = NoResult

\* the spot request fails, answers with an error status or without data.amount
SpotFails ==
  /\ pc = "spot"
  /\ waited' = 0
  /\ UNCHANGED appVars
  /\ \E kind \in {"reject", "notOk", "invalid"} :
       /\ UNCHANGED <<call, cb, fx>>
       /\ Throw(Answered(log, kind), "API request failed")

\* the spot request answers with an amount
SpotAnswers ==
  /\ pc = "spot"
  /\ waited' = 0
  /\ UNCHANGED appVars
  /\ \E cents \in SpotCents :
       LET usdAmount == ParseAmount(cents)
           lg == AnsweredWith(log, "amount", usdAmount)
       IN /\ cb' = [cb EXCEPT !.usdAmount = usdAmount]
          /\ UNCHANGED call
          /\ IF toUpperCase(call.currency) = "USD"
             THEN /\ UNCHANGED fx
                  /\ Return(lg, "amount", usdAmount)
             ELSE LET frame == EnterExchangeRate("USD", call.currency, FALSE, 0, 0,
                                                 call.now) IN
                  /\ fx' = frame
                  /\ pc' = "fx"
                  /\ log' = Append(lg, PrimaryRequest(frame))
                  /\ UNCHANGED result

(***************************************************************************)
(* CoinbaseApi.getBtcCandlesForTimeWindow                                  *)
(***************************************************************************)
\* faulty variant: an unknown window code is served like 7d
CallGetBtcCandlesForTimeWindowDefault7d ==
  /\ Ready
  /\ waited' = 0
  /\ UNCHANGED appVars
  /\ \E currency \in Currencies, timeWindow \in WindowCodes, now \in NowChoices :
       LET served == IF timeWindow \in Windows THEN timeWindow ELSE "7d" IN
       /\ call' = [NoCall EXCEPT !.op = "candles", !.currency = currency,
                                 !.timeWindow = timeWindow, !.now = now]
       /\ fx' = NoFx
       /\ cb' = [NoCb EXCEPT !.part = 1, !.start = WindowStart(served, now)]
       /\ pc' = "candles"
       /\ log' = <<CandleRequest(Granularity(served), WindowStart(served, now),
                                 FirstRequestEnd(served, now))>>
       /\ result' = NoResult

CallGetBtcCandlesForTimeWindow ==
  /\ Ready
  /\ waited' = 0
  /\ UNCHANGED appVars
  /\ \E currency \in Currencies, timeWindow \in WindowCodes, now \in NowChoices :
       /\ call' = [NoCall EXCEPT !.op = "candles", !.currency = currency,
                                 !.timeWindow = timeWindow, !.now = now]
       /\ fx' = NoFx
       /\ IF timeWindow \in Windows
          THEN /\ cb' = [NoCb EXCEPT !.part = 1, !.start = WindowStart(timeWindow, now)]
               /\ pc' = "candles"
               /\ log' = <<CandleRequest(Granularity(timeWindow),
                                         WindowStart(timeWindow, now),
                                         FirstRequestEnd(timeWindow, now))>>
               /\ result' = NoResult
          ELSE /\ cb' = NoCb
               /\ Throw(<<>>, "Unsupported time window")

\* a candle request fails, answers with an error status or with a non-array
CandlesFail ==
  /\ pc = "candles"
  /\ waited' = 0
  /\ UNCHANGED appVars
  /\ \E kind \in {"reject", "notOk", "notArray"} :
       /\ UNCHANGED <<call, cb, fx>>
       /\ Throw(Answered(log, kind), "API request failed")

\* the first request of the 1y window answers: the second one is issued
FirstHalfAnswers ==
  /\ pc = "candles"
  /\ waited' = 0
  /\ UNCHANGED appVars
  /\ call.timeWindow = "1y"
  /\ cb.part = 1
  /\ \E data \in CandleArrays(log[Len(log)].granularity, log[Len(log)].start,
                              log[Len(log)].end) :
       /\ cb' = [cb EXCEPT !.part = 2, !.firstHalf = ParseCandles(data)]
       /\ log' = Append(Answered(log, "array"),
                        CandleRequest(Granularity("1y"), SixMonthsAgo(call.now), call.now))
       /\ UNCHANGED <<pc, call, fx, result>>

\* faulty variant: the halves are concatenated newest block first
AllDailyCandles1yNewestFirst(firstHalf, secondHalf) ==
  secondHalf \o firstHalf

\* `[...firstHalf, ...secondHalf]`
AllDailyCandles1y(firstHalf, secondHalf) ==
  firstHalf \o secondHalf

\* the last candle request of the window answers: aggregate, then convert
CandlesAnswer ==
  /\ pc = "candles"
  /\ waited' = 0
  /\ UNCHANGED appVars
  /\ call.timeWindow = "1y" => cb.part = 2
  /\ \E data \in CandleArrays(log[Len(log)].granularity, log[Len(log)].start,
                              log[Len(log)].end) :
       LET parsed == ParseCandles(data)
           secondHalf == IF call.timeWindow = "1y" THEN parsed ELSE <<>>
           rawCandles == IF call.timeWindow = "1y"
                         THEN AllDailyCandles1y(cb.firstHalf, secondHalf)
                         ELSE parsed
           usdCandles == WindowCandles(call.timeWindow, rawCandles)
           lg == Answered(log, "array")
       IN /\ UNCHANGED call
          /\ IF toUpperCase(call.currency) = "USD"
             THEN /\ cb' = [cb EXCEPT !.secondHalf = secondHalf,
                                      !.rawCandles = rawCandles,
                                      !.usdCandles = usdCandles]
                  /\ UNCHANGED fx
                  /\ Return(lg, "candles", usdCandles)
             ELSE IF NoCandles(usdCandles)
             THEN /\ cb' = [cb EXCEPT !.secondHalf = secondHalf,
                                      !.rawCandles = rawCandles,
                                      !.usdCandles = usdCandles]
                  /\ UNCHANGED fx
                  /\ Return(lg, "candles", <<>>)
             ELSE LET frame == EnterExchangeRate("USD", call.currency, TRUE, cb.start,
                                                 call.now, call.now) IN
                  /\ cb' = [cb EXCEPT !.secondHalf = secondHalf,
                                      !.rawCandles = rawCandles,
                                      !.usdCandles = usdCandles,
                                      !.attempt = "dated"]
                  /\ fx' = frame
                  /\ pc' = "fx"
                  /\ log' = Append(lg, PrimaryRequest(frame))
                  /\ UNCHANGED result

(***************************************************************************)
(* CoinbaseApi.aggregateCandles called directly on an arbitrary series.    *)
(***************************************************************************)
\* candles with prices 1 or 2 that satisfy the data model's invariant
CandleShapes ==
  {c \in [low : {1, 2}, high : {1, 2}, open : {1, 2}, close : {1, 2},
          volume : {0, 1}] :
     c.low <= c.open /\ c.low <= c.close /\ c.open <= c.high /\ c.close <= c.high}

\* the series of the given shapes, one bucket of 300 s after the other
SeriesOf(shapes) ==
  [i \in 1..Len(shapes) |->
     [time |-> 300 * i, low |-> N(shapes[i].low), high |-> N(shapes[i].high),
      open |-> N(shapes[i].open), close |-> N(shapes[i].close),
      volume |-> N(shapes[i].volume)]]

ArbitrarySeries ==
  {SeriesOf(shapes) : shapes \in UNION {[1..n -> CandleShapes] : n \in 0..MaxLen}}

CallAggregateCandles ==
  /\ Ready
  /\ waited' = 0
  /\ UNCHANGED appVars
  /\ \E candles \in ArbitrarySeries, aggregationFactor \in 1..MaxFactor :
       /\ call' = [NoCall EXCEPT !.op = "aggregate", !.candles = candles,
                                 !.aggregationFactor = aggregationFactor]
       /\ cb' = NoCb
       /\ fx' = NoFx
       /\ Return(<<>>, "candles", aggregateCandles(candles, aggregationFactor))

Next ==
  \/ CallGetBtcSpotPrice
  \/ SpotFails
  \/ SpotAnswers
  \/ CallGetBtcCandlesForTimeWindow
  \/ CandlesFail
  \/ FirstHalfAnswers
  \/ CandlesAnswer
  \/ CallGetExchangeRate
  \/ FxFails
  \/ FxEmpty
  \/ FxFallbackEmpty
  \/ FxData
  \/ CallAggregateCandles

Spec ==
  Init /\ [][Next]_vars

(***************************************************************************)
(* The upstream stays silent.  Each upstream request is `await fetch(url)` *)
(* with the url alone: the call resumes when fetch settles and at no other *)
(* moment.                                                                 *)
(***************************************************************************)
\* bound: the units of silence a behaviour follows
MaxWait == 3

\* the call is suspended in `await fetch(...)`
Awaiting ==
  pc \in {"spot", "candles", "fx"}

\* a unit of time passes without the pending request being answered
UpstreamSilent ==
  /\ Awaiting
  /\ waited < MaxWait
  /\ waited' = waited + 1
  /\ UNCHANGED <<pc, call, cb, fx, log, result>>
  /\ UNCHANGED appVars

\* the calls with the failures and the silence of the upstreams
SilenceNext ==
  \/ CallGetBtcSpotPrice
  \/ SpotFails
  \/ SpotAnswers
  \/ CallGetBtcCandlesForTimeWindow
  \/ CandlesFail
  \/ CallGetExchangeRate
  \/ FxFails
  \/ UpstreamSilent

SilenceSpec ==
  Init /\ [][SilenceNext]_vars

(***************************************************************************)
(* Vocabulary of the properties.                                           *)
(***************************************************************************)
Done ==
  pc = "done"

Succeeded ==
  pc = "done" /\ result.status = "ok"

Failed ==
  pc = "done" /\ result.status = "error"

IsUsd(currency) ==
  currency \in {"USD", "usd"}

RequestsTo(api) ==
  SelectSeq(log, LAMBDA e : e.api = api)

\* the calendar day of the call
Today ==
  call.now \div 86400

\* a request over the last 30 days
IsDefaultRange(e) ==
  e.start = Today - 30 /\ e.end = Today

\* a request over the widened range of the last 90 days
IsFallbackRange(e) ==
  e.start = Today - 90 /\ e.end = Today

\* the rate base -> target from the pivot rates the two queries returned
CrossRate(base, target) ==
  CASE base = "EUR" -> fx.eurToTarget
    [] target = "EUR" -> Div(N(1), fx.eurToBase)
    [] OTHER -> Div(fx.eurToTarget, fx.eurToBase)

\* C1: getBtcSpotPrice issues exactly one BTC-USD spot request whatever the
\* currency; for USD in any letter case it returns the amount of that answer
\* and never asks the FX source; for another currency a returned amount is the
\* USD amount times the USD -> currency rate looked up over the default range
\* (last 30 days), and the call fails when the spot request or the rate lookup
\* fails.
C1_SpotPrice ==
  call.op = "spot" =>
    /\ Len(RequestsTo("spot")) = 1
    /\ log[1].api = "spot" /\ log[1].key = "BTC-USD"
    /\ RequestsTo("candles") = <<>>
    /\ IsUsd(call.currency) =>
         /\ RequestsTo("fx") = <<>>
         /\ (Done /\ log[1].out = "amount") =>
              (Succeeded /\ result.amount = log[1].value)
    /\ (Done /\ log[1].out # "amount") => (Failed /\ Len(log) = 1)
    /\ (~IsUsd(call.currency) /\ Len(log) > 1) =>
         /\ log[1].out = "amount"
         /\ IsDefaultRange(log[2]) /\ log[2].key = "USD"
         /\ \A i \in 2..Len(log) :
              /\ log[i].api = "fx"
              /\ IsDefaultRange(log[i]) \/ IsFallbackRange(log[i])
    /\ (~IsUsd(call.currency) /\ Succeeded) =>
         /\ log[Len(log)].api = "fx" /\ log[Len(log)].out = "data"
         /\ result.amount = Mul(log[1].value, CrossRate("USD", call.currency))
    /\ (~IsUsd(call.currency) /\ Done /\ log[Len(log)].out \in {"failed", "empty"}) =>
         Failed

\* a converted spot price: 65000.00 USD at 27/25 USD per EUR
C1_Witness ==
  /\ call.op = "spot" /\ call.currency = "EUR" /\ Succeeded
  /\ log[1].value = N(65000)
  /\ fx.eurToBase = Fin(27, 25)
  /\ result.amount = Fin(65000 * 25, 27)

(***************************************************************************)
(* Aggregation, stated over positions of the input.                        *)
(***************************************************************************)
\* ceil(n / k)
CeilDiv(n, k) ==
  CHOOSE m \in 0..n : m * k >= n /\ (m = 0 \/ (m - 1) * k < n)

\* the g-th group of k consecutive candles (the last one may be shorter)
GroupAt(candles, k, g) ==
  SubSeq(candles, (g - 1) * k + 1,
         IF g * k < Len(candles) THEN g * k ELSE Len(candles))

RECURSIVE TotalVolume(_)
TotalVolume(candles) ==
  IF Len(candles) = 0 THEN N(0)
  ELSE IF Len(candles) = 1 THEN candles[1].volume
  ELSE Add(TotalVolume(SubSeq(candles, 1, Len(candles) \div 2)),
           TotalVolume(SubSeq(candles, Len(candles) \div 2 + 1, Len(candles))))

IsMergeOf(c, group) ==
  /\ c.time = group[1].time
  /\ c.open = group[1].open
  /\ c.close = group[Len(group)].close
  /\ \A i \in 1..Len(group) : Leq(group[i].high, c.high) /\ Leq(c.low, group[i].low)
  /\ \E i \in 1..Len(group) : group[i].high = c.high
  /\ \E i \in 1..Len(group) : group[i].low = c.low
  /\ c.volume = TotalVolume(group)

IsAggregationOf(out, candles, k) ==
  /\ Len(out) = CeilDiv(Len(candles), k)
  /\ \A g \in 1..Len(out) : IsMergeOf(out[g], GroupAt(candles, k, g))
  /\ TotalVolume(out) = TotalVolume(candles)

\* the aggregation factor of a window
FactorOf(timeWindow) ==
  CASE timeWindow \in {"24h", "30d"} -> 2
    [] timeWindow = "1y" -> 30
    [] OTHER -> 1

\* C2: aggregateCandles(candles, k) emits one candle per consecutive group of
\* k input candles, a shorter last group included, with the first time and
\* open, the last close, the maximum high, the minimum low and the summed
\* volume of the group; the total volume is preserved.  It holds of a direct
\* call and of the aggregation getBtcCandlesForTimeWindow performs.
C2_Aggregation ==
  /\ (call.op = "aggregate" /\ Done) =>
       IsAggregationOf(result.candles, call.candles, call.aggregationFactor)
  /\ (call.op = "candles" /\ call.timeWindow \in {"24h", "30d", "1y"}) =>
       IsAggregationOf(cb.usdCandles, cb.rawCandles, FactorOf(call.timeWindow))

\* three candles aggregated by two: a full group and a trailing partial one,
\* the full group's high and low coming from different candles
C2_Witness ==
  /\ call.op = "aggregate" /\ Done
  /\ Len(call.candles) = 3 /\ call.aggregationFactor = 2
  /\ Len(result.candles) = 2
  /\ call.candles[1].high # call.candles[2].high
  /\ call.candles[1].low # call.candles[2].low
  /\ result.candles[1].volume = N(2)

(***************************************************************************)
(* EcbApi.getExchangeRate called directly.                                 *)
(***************************************************************************)
\* the currencies the FX source was asked about, in the order of first asking
RECURSIVE KeysInOrder(_)
KeysInOrder(requests) ==
  IF requests = <<>> THEN <<>>
  ELSE LET rest == KeysInOrder(SubSeq(requests, 1, Len(requests) - 1))
           key == requests[Len(requests)].key
       IN IF rest # <<>> /\ rest[Len(rest)] = key THEN rest ELSE Append(rest, key)

\* the day range getExchangeRate was called with
GivenRange(e) ==
  IF call.dated
  THEN e.start = call.startDate \div 86400 /\ e.end = call.endDate \div 86400
  ELSE IsDefaultRange(e)

C4_SameCurrency ==
  (call.op = "rate" /\ call.base = call.target) =>
    /\ log = <<>>
    /\ pc # "idle" => (Succeeded /\ result.rate = N(1))

(***************************************************************************)
(* The widened fallback query.                                             *)
(***************************************************************************)
\* the request before log[i] is a primary request for the same currency
\* that was answered without observations
FollowsEmptyPrimary(i) ==
  /\ i > 1
  /\ log[i - 1].api = "fx"
  /\ log[i - 1].key = log[i].key
  /\ ~IsFallbackRange(log[i - 1])
  /\ log[i - 1].out = "empty"

\* the messages with which a caller of getExchangeRate rejects a rate it got
FalsyRateMessages ==
  {"No exchange rate available from ECB", "No exchange rate available"}

\* C5: within one pivot query the 90-day fallback request is issued exactly
\* when the primary request was answered without observations, and at most
\* once; a fallback answered with observations lets the query return, one
\* answered without lets it fail; a transport/HTTP failure or an unparseable
\* body on either request ends the call in failure with no further request.
C5_Fallback ==
  \A i \in 1..Len(log) :
    log[i].api = "fx" =>
      /\ IsFallbackRange(log[i]) <=> FollowsEmptyPrimary(i)
      /\ (~IsFallbackRange(log[i]) /\ log[i].out = "empty") =>
           (i < Len(log) /\ IsFallbackRange(log[i + 1]) /\ log[i + 1].key = log[i].key)
      /\ log[i].out = "failed" => (i = Len(log) /\ Failed)
      /\ (IsFallbackRange(log[i]) /\ log[i].out = "empty") => (i = Len(log) /\ Failed)
      /\ (IsFallbackRange(log[i]) /\ log[i].out = "data" /\ i = Len(log)) =>
           (Succeeded \/ (Failed /\ result.error \in FalsyRateMessages))
      /\ log[i].out = "pending" => (i = Len(log) /\ pc = "fx")

\* the primary query was empty and the fallback's observation 160 is returned
C5_Witness ==
  /\ call.op = "rate" /\ call.base = "EUR" /\ call.target = "JPY" /\ Succeeded
  /\ Len(log) = 2
  /\ log[1].out = "empty" /\ ~IsFallbackRange(log[1])
  /\ log[2].out = "data" /\ IsFallbackRange(log[2])
  /\ result.rate = N(160)

\* C6: a pivot rate of 0 or a non-finite one is rejected before it is used:
\* no returned rate is 0, Infinity or NaN, and no returned spot amount or
\* candle field is Infinity or NaN.
C6_FiniteRates ==
  Succeeded =>
    /\ call.op = "rate" => (IsFinite(result.rate) /\ ~IsZero(result.rate))
    /\ call.op = "spot" => IsFinite(result.amount)
    /\ call.op = "candles" =>
         \A i \in 1..Len(result.candles) :
           /\ IsFinite(result.candles[i].open) /\ IsFinite(result.candles[i].high)
           /\ IsFinite(result.candles[i].low) /\ IsFinite(result.candles[i].close)
           /\ IsFinite(result.candles[i].volume)

(***************************************************************************)
(* CoinbaseApi.getBtcCandlesForTimeWindow                                  *)
(***************************************************************************)
\* candle c is candle u with every price and the volume multiplied by r
IsScaled(c, u, r) ==
  /\ c.time = u.time
  /\ c.open = Mul(u.open, r)
  /\ c.high = Mul(u.high, r)
  /\ c.low = Mul(u.low, r)
  /\ c.close = Mul(u.close, r)
  /\ c.volume = Mul(u.volume, r)

\* the day range of the window's candle data
IsWindowRange(e) ==
  e.start = cb.start \div 86400 /\ e.end = Today

\* C7: for USD (any letter case) getBtcCandlesForTimeWindow returns the USD
\* series as it is and never asks the FX source; for another currency every
\* returned candle is the USD candle at the same position with open, high,
\* low, close and volume multiplied by one and the same scalar, the
\* USD -> currency rate of the lookup that ended last, whose first lookup is
\* made once for the whole window's date range.
C7_OneRate ==
  call.op = "candles" =>
    /\ IsUsd(call.currency) =>
         /\ RequestsTo("fx") = <<>>
         /\ Succeeded => result.candles = cb.usdCandles
    /\ (~IsUsd(call.currency) /\ Succeeded) =>
         /\ Len(result.candles) = Len(cb.usdCandles)
         /\ \A i \in 1..Len(result.candles) :
              IsScaled(result.candles[i], cb.usdCandles[i],
                       CrossRate("USD", call.currency))
         /\ cb.usdCandles # <<>> =>
              /\ cb.exchangeRate = CrossRate("USD", call.currency)
              /\ IsWindowRange(RequestsTo("fx")[1])
              /\ RequestsTo("fx")[1].key = "USD"

\* 31 daily candles of the 30d window, aggregated to 16 and converted at
\* 160 / 1.08 JPY per USD
C7_Witness ==
  /\ call.op = "candles" /\ call.currency = "JPY" /\ call.timeWindow = "30d"
  /\ Succeeded
  /\ Len(result.candles) = 16
  /\ cb.exchangeRate = Fin(4000, 27)
  /\ cb.attempt = "dated"
  /\ result.candles[1].open # cb.usdCandles[1].open

\* C8: when the dated rate lookup of a candle window fails, the lookup is
\* retried once without dates, and the call fails only if that retry fails
\* too: a call that made an FX request never fails before its retry.
C8_RetryLatest ==
  (call.op = "candles" /\ Failed /\ RequestsTo("fx") # <<>>) => cb.attempt = "latest"

\* the candle requests of a window: <<granularity, seconds back to the start,
\* seconds back to the end>>
PlanOf(timeWindow) ==
  CASE timeWindow = "1h" -> <<<<300, 3600, 0>>>>
    [] timeWindow = "24h" -> <<<<3600, 86400, 0>>>>
    [] timeWindow = "7d" -> <<<<86400, 604800, 0>>>>
    [] timeWindow = "30d" -> <<<<86400, 2592000, 0>>>>
    [] timeWindow = "1y" -> <<<<86400, 31536000, 15552000>>, <<86400, 15552000, 0>>>>

\* the candle stage of the call is over: every candle request was answered
PastCandles ==
  pc = "fx" \/ Succeeded \/ (Failed /\ RequestsTo("fx") # <<>>)

\* C9: the candle requests of a window are those of the plan, in order: one
\* request for 1h (300 s, last hour), 24h (3600 s, last 24 hours), 7d
\* (86400 s, last 7 days) and 30d (86400 s, last 30 days), two for 1y
\* (86400 s, [now-365d, now-180d] then [now-180d, now]); the series is
\* aggregated by 2 for 24h and 30d, by 30 for 1y after concatenation, and
\* not at all for 1h and 7d.
C9_Plan ==
  (call.op = "candles" /\ call.timeWindow \in Windows) =>
    LET requests == RequestsTo("candles")
        plan == PlanOf(call.timeWindow)
    IN /\ Len(requests) >= 1 /\ Len(requests) <= Len(plan)
       /\ \A i \in 1..Len(requests) :
            /\ log[i] = requests[i]
            /\ requests[i].key = "BTC-USD"
            /\ requests[i].granularity = plan[i][1]
            /\ requests[i].start = call.now - plan[i][2]
            /\ requests[i].end = call.now - plan[i][3]
       /\ PastCandles =>
            /\ Len(requests) = Len(plan)
            /\ Len(cb.rawCandles) >= Len(cb.firstHalf)
            /\ SubSeq(cb.rawCandles, 1, Len(cb.firstHalf)) = cb.firstHalf
            /\ call.timeWindow \in {"1h", "7d"} => cb.usdCandles = cb.rawCandles
            /\ call.timeWindow \in {"24h", "30d"} =>
                 Len(cb.usdCandles) = CeilDiv(Len(cb.rawCandles), 2)
            /\ call.timeWindow = "1y" =>
                 Len(cb.usdCandles) = CeilDiv(Len(cb.rawCandles), 30)

\* both requests of the 1y window were made and answered
C9_Witness ==
  /\ call.op = "candles" /\ call.timeWindow = "1y" /\ Succeeded
  /\ Len(RequestsTo("candles")) = 2
  /\ log[1].end = log[2].start
  /\ Len(cb.firstHalf) = 24
  /\ Len(cb.rawCandles) = 55

\* the first and the last candle of an aggregation
KeepsEnds(out, candles, k) ==
  /\ Len(out) = CeilDiv(Len(candles), k)
  /\ Len(candles) > 0 =>
       /\ out[1].open = candles[1].open
       /\ out[Len(out)].close = candles[Len(candles)].close

\* C10: n candles aggregated by k >= 1 give ceil(n/k) candles, the first
\* with the open of the first input candle and the last with the close of
\* the last; 24 hourly candles give 12 for the 24h window, and the 1y window
\* gives ceil(total/30) for the total count of both requests' candles.
C10_Count ==
  /\ (call.op = "aggregate" /\ Done) =>
       KeepsEnds(result.candles, call.candles, call.aggregationFactor)
  /\ (call.op = "candles" /\ call.timeWindow \in Windows) =>
       KeepsEnds(cb.usdCandles, cb.rawCandles, FactorOf(call.timeWindow))
  /\ (call.op = "candles" /\ call.timeWindow = "24h" /\ Len(cb.rawCandles) = 24) =>
       Len(cb.usdCandles) = 12
  /\ (call.op = "candles" /\ call.timeWindow = "1y" /\ IsUsd(call.currency)
        /\ Succeeded) =>
       /\ Len(cb.rawCandles) >= Len(cb.firstHalf)
       /\ Len(result.candles) = CeilDiv(Len(cb.rawCandles), 30)

\* 31 + 31 daily candles of the 1y window give 3 candles
C10_Witness ==
  /\ call.op = "candles" /\ call.timeWindow = "1y" /\ call.currency = "USD"
  /\ Succeeded
  /\ Len(cb.firstHalf) = 31
  /\ Len(cb.rawCandles) = 62
  /\ Len(result.candles) = 3
  /\ result.candles[3].close = cb.rawCandles[62].close

(***************************************************************************)
(* The data model's invariants on the candles a call returns.              *)
(***************************************************************************)
\* low <= min(open, close) and high >= max(open, close)
IsWellFormed(c) ==
  /\ Leq(c.low, Min2(c.open, c.close))
  /\ Leq(Max2(c.open, c.close), c.high)

\* C11: every candle getBtcCandlesForTimeWindow returns, for every window and
\* target currency, has low <= min(open, close) and high >= max(open, close),
\* given that the rows of the candle source have; so has every candle
\* aggregateCandles builds from such candles.
C11_WellFormed ==
  (Succeeded /\ call.op \in {"candles", "aggregate"}) =>
    \A i \in 1..Len(result.candles) : IsWellFormed(result.candles[i])

\* a 30d series, aggregated in pairs and converted at 25/27 EUR per USD, with
\* a candle whose four prices are not all equal
C11_Witness ==
  /\ Succeeded /\ call.op = "candles"
  /\ call.timeWindow = "30d" /\ call.currency = "EUR"
  /\ cb.exchangeRate = Fin(25, 27)
  /\ Len(cb.rawCandles) = 31 /\ Len(result.candles) = 16
  /\ \E i \in 1..Len(result.candles) :
       /\ result.candles[i].low # result.candles[i].open
       /\ result.candles[i].high # result.candles[i].close

\* oldest to newest, no two candles with the same time
StrictlyIncreasing(candles) ==
  \A i \in 1..(Len(candles) - 1) : candles[i].time < candles[i + 1].time

\* C12: the candles getBtcCandlesForTimeWindow returns are ordered oldest to
\* newest with strictly increasing time for every window, also for 1y, whose
\* two answers are concatenated, and also when the candle of the bucket at
\* now - 180d is in both answers (the candle source answering newest first).
C12_Ordered ==
  (Succeeded /\ call.op = "candles") => StrictlyIncreasing(result.candles)

\* a 1y series whose two halves both hold the bucket at now - 180d
C12_Witness ==
  /\ Succeeded /\ call.op = "candles" /\ call.timeWindow = "1y"
  /\ Len(cb.firstHalf) = 31 /\ Len(cb.rawCandles) = 62
  /\ cb.rawCandles[31].time = SixMonthsAgo(call.now)
  /\ cb.rawCandles[32].time = SixMonthsAgo(call.now)
  /\ Len(result.candles) = 3

(***************************************************************************)
(* Failures of getBtcCandlesForTimeWindow.                                 *)
(***************************************************************************)
\* every candle request of the call was answered with an array
AllArrays ==
  \A i \in 1..Len(RequestsTo("candles")) : RequestsTo("candles")[i].out = "array"

\* C19: for every supported window and every currency, when the candle
\* source answers with arrays that hold no candle, the call returns the empty
\* series without failing and without asking the FX source; when a candle
\* request fails (rejected fetch, error status, non-array body), the call
\* fails at that request.
C19_EmptyIsValid ==
  (call.op = "candles" /\ call.timeWindow \in Windows /\ Done) =>
    /\ (AllArrays /\ cb.rawCandles = <<>>) =>
         /\ Succeeded
         /\ result.candles = <<>>
         /\ RequestsTo("fx") = <<>>
    /\ ~AllArrays =>
         /\ Failed
         /\ log[Len(log)].api = "candles"
         /\ log[Len(log)].out \in {"reject", "notOk", "notArray"}

\* both requests of the 1y window answered with an empty array, for a
\* currency that needs conversion
C19_Witness ==
  /\ call.op = "candles" /\ call.timeWindow = "1y" /\ call.currency = "JPY"
  /\ Succeeded /\ AllArrays
  /\ Len(RequestsTo("candles")) = 2
  /\ cb.rawCandles = <<>> /\ result.candles = <<>>

\* C20: a window code outside {1h, 24h, 7d, 30d, 1y} makes the call fail with
\* "Unsupported time window" for every currency, with no request to the
\* candle source or to the FX source.
C20_InvalidWindow ==
  (call.op = "candles" /\ call.timeWindow \notin Windows) =>
    /\ Failed
    /\ result.error = "Unsupported time window"
    /\ log = <<>>

\* the window code 5y with a currency that needs conversion
C20_Witness ==
  /\ call.op = "candles" /\ call.timeWindow = "5y" /\ call.currency = "EUR"
  /\ Failed /\ log = <<>>

(***************************************************************************)
(* Market data: CoinLoreApi, as far as fetchMarketData uses it.            *)
(***************************************************************************)
\* a number, as opposed to None
Num(x) ==
  [num |-> x]

\* data[0] of the ticker answers CoinLore may give; a field it leaves out is
\* None
Tickers ==
  {[price_usd |-> Num(1000), market_cap_usd |-> Num(100), volume24 |-> Num(10),
    percent_change_24h |-> Num(5), percent_change_1h |-> Num(1),
    percent_change_7d |-> None],
   [price_usd |-> Num(3000), market_cap_usd |-> Num(300), volume24 |-> Num(30),
    percent_change_24h |-> None, percent_change_1h |-> Num(2),
    percent_change_7d |-> Num(7)]}

\* what getExchangeRate(currency) may return: 1 / rates.USD for a currency at
\* 0.5 USD, or 1 when the rate could not be fetched; USD is not looked up
ExchangeRates(currency) ==
  IF toUpperCase(currency) = "USD" THEN {1} ELSE {1, 2}

\* the object getBtcMarketData returns for the ticker `btc`
MarketData(btc, currency, exchangeRate) ==
  [price |-> Num(btc.price_usd.num * exchangeRate),
   marketCap |-> Num(btc.market_cap_usd.num * exchangeRate),
   volume24h |-> Num(btc.volume24.num * exchangeRate),
   change24h |-> IF btc.percent_change_24h = None THEN Num(0)
                 ELSE btc.percent_change_24h,
   change1h |-> btc.percent_change_1h,
   change7d |-> btc.percent_change_7d,
   currency |-> toUpperCase(currency)]

\* the object getBtcPriceChanges returns, from the market data it fetched
PriceChanges(marketData) ==
  Changes(marketData.change1h, marketData.change24h, marketData.change7d)

\* the ways a ticker request fails: rejected fetch, error status, body that
\* is no non-empty array
TickerFailures ==
  {"reject", "notOk", "invalidFormat"}

(***************************************************************************)
(* Market data: fetchMarketData and the effect that calls it.              *)
(***************************************************************************)
\* newChanges
NewChanges(marketData, priceChanges) ==
  Changes(priceChanges["1h"],
          IF marketData.change24h # None THEN marketData.change24h
          ELSE priceChanges["24h"],
          priceChanges["7d"])

\* what a call hands to setMarketCap, setVolume24h and setChanges
Value(marketCap, volume24h, changes) ==
  [marketCap |-> marketCap, volume24h |-> volume24h, changes |-> changes]

ValueOf(entry) ==
  Value(entry.marketCap, entry.volume24h, entry.changes)

\* the state after the three setters and setLoadingMarketData(false)
Show(value) ==
  [marketCap |-> value.marketCap, volume24h |-> value.volume24h,
   changes |-> value.changes, loadingMarketData |-> FALSE]

\* faulty variant: an entry never expires
IsFreshForever(cached) ==
  cached # None

\* cached && (Date.now() - cached.timestamp) < COINLORE_CACHE_DURATION
IsFresh(cached) ==
  cached # None /\ DateNow - cached.timestamp < COINLORE_CACHE_DURATION

\* a call that has returned: its locals are gone, how and when it ended is kept
\* ("hit": served from the cache, "fresh": fetched, "stale": fetch failed and
\* the entry read at the start was shown, "default": fetch failed with no
\* such entry)
Finished(get, outcome) ==
  [get EXCEPT !.stage = "done", !.outcome = outcome, !.cached = None,
              !.marketData = None, !.doneAt = clock]

\* fetchMarketData(useCache) of the effect run for `currency`, up to its
\* return from the cache or its first await
FetchMarketData(currency, useCache) ==
  LET cacheKey == CacheKey(currency)
      cached == coinloreCache[cacheKey]
      get == [currency |-> currency, cacheKey |-> cacheKey, useCache |-> useCache,
              cached |-> cached, at |-> clock, stage |-> "marketData",
              marketData |-> None, outcome |-> "pending", doneAt |-> 0]
  IN /\ Len(gets) < MaxGets
     /\ UNCHANGED coinloreCache
     /\ IF useCache /\ IsFresh(cached)
        THEN /\ shown' = Show(ValueOf(cached))
             /\ gets' = Append(gets, Finished(get, "hit"))
        ELSE /\ shown' = [shown EXCEPT !.loadingMarketData = TRUE]
             /\ gets' = Append(gets, get)

\* the minutes between two firings of the refresh interval
IntervalMinutes ==
  COINLORE_CACHE_DURATION \div (60 * 1000)

\* minutes that pass in one step
TickSteps ==
  {15, 30}

\* the first run of the effect: fetchMarketData(true), then setInterval
Mount ==
  /\ marketDataInterval = NoTimer
  /\ FetchMarketData(appCurrency, TRUE)
  /\ marketDataInterval' = clock + IntervalMinutes
  /\ UNCHANGED <<appCurrency, clock, serviceVars, pageVars, toolVars>>

\* the user picks another currency: the effect's cleanup clears the interval
\* and the effect runs again for the new currency
SelectCurrency ==
  /\ marketDataInterval # NoTimer
  /\ \E currency \in AppCurrencies \ {appCurrency} :
       /\ appCurrency' = currency
       /\ FetchMarketData(currency, TRUE)
  /\ marketDataInterval' = clock + IntervalMinutes
  /\ UNCHANGED <<clock, serviceVars, pageVars, toolVars>>

\* setInterval(() => fetchMarketData(false), COINLORE_CACHE_DURATION)
IntervalFires ==
  /\ marketDataInterval # NoTimer
  /\ clock = marketDataInterval
  /\ FetchMarketData(appCurrency, FALSE)
  /\ marketDataInterval' = clock + IntervalMinutes
  /\ UNCHANGED <<appCurrency, clock, serviceVars, pageVars, toolVars>>

\* time passes once the component is mounted, up to the minute the interval
\* is due
Tick ==
  /\ marketDataInterval # NoTimer
  /\ \E minutes \in TickSteps :
       /\ clock + minutes <= MaxClock
       /\ clock + minutes <= marketDataInterval
       /\ clock' = clock + minutes
  /\ UNCHANGED <<appCurrency, coinloreCache, gets, shown, marketDataInterval, serviceVars, pageVars, toolVars>>

\* `await coinloreApi.getBtcMarketData(currency)` resumes with the data
MarketDataAnswers ==
  /\ \E id \in 1..Len(gets) :
       /\ gets[id].stage = "marketData"
       /\ \E btc \in Tickers, exchangeRate \in ExchangeRates(gets[id].currency) :
            gets' = [gets EXCEPT ![id].stage = "priceChanges",
                                 ![id].marketData =
                                   MarketData(btc, gets[id].currency, exchangeRate)]
  /\ UNCHANGED <<appCurrency, coinloreCache, shown, clock, marketDataInterval, serviceVars, pageVars, toolVars>>

\* faulty variant: the entry is stamped with the time of the call
NewEntryStampedAtCall(value, get) ==
  [marketCap |-> value.marketCap, volume24h |-> value.volume24h,
   changes |-> value.changes, timestamp |-> get.at * 60 * 1000]

\* faulty variant: an entry written since the call began is kept
NewEntryKeepsNewer(value, get) ==
  LET entry == coinloreCache[get.cacheKey] IN
  IF entry # None /\ entry.timestamp >= get.at * 60 * 1000
  THEN entry
  ELSE [marketCap |-> value.marketCap, volume24h |-> value.volume24h,
        changes |-> value.changes, timestamp |-> DateNow]

\* the entry written after a successful fetch
NewEntry(value, get) ==
  [marketCap |-> value.marketCap, volume24h |-> value.volume24h,
   changes |-> value.changes, timestamp |-> DateNow]

\* `await coinloreApi.getBtcPriceChanges(currency)` resumes with the changes:
\* the state and the cache are updated
PriceChangesAnswer ==
  /\ \E id \in 1..Len(gets) :
       /\ gets[id].stage = "priceChanges"
       /\ \E btc \in Tickers, exchangeRate \in ExchangeRates(gets[id].currency) :
            LET marketData == gets[id].marketData
                priceChanges == PriceChanges(MarketData(btc, gets[id].currency,
                                                        exchangeRate))
                value == Value(marketData.marketCap, marketData.volume24h,
                               NewChanges(marketData, priceChanges))
            IN /\ shown' = Show(value)
               /\ coinloreCache' = [coinloreCache EXCEPT
                                      ![gets[id].cacheKey] = NewEntry(value, gets[id])]
               /\ gets' = [gets EXCEPT ![id] = Finished(gets[id], "fresh")]
  /\ UNCHANGED <<appCurrency, clock, marketDataInterval, serviceVars, pageVars, toolVars>>

\* faulty variant: an expired entry is not shown after a failed fetch
CatchFreshOnly(id) ==
  LET cached == gets[id].cached IN
  /\ UNCHANGED coinloreCache
  /\ IF IsFresh(cached)
     THEN /\ shown' = Show(ValueOf(cached))
          /\ gets' = [gets EXCEPT ![id] = Finished(gets[id], "stale")]
     ELSE /\ shown' = [shown EXCEPT !.changes = Changes(None, None, None),
                                    !.loadingMarketData = FALSE]
          /\ gets' = [gets EXCEPT ![id] = Finished(gets[id], "default")]

\* faulty variant: the defaults shown after a failed fetch are cached
CatchCachesDefaults(id) ==
  LET cached == gets[id].cached IN
  IF cached # None
  THEN /\ UNCHANGED coinloreCache
       /\ shown' = Show(ValueOf(cached))
       /\ gets' = [gets EXCEPT ![id] = Finished(gets[id], "stale")]
  ELSE /\ coinloreCache' = [coinloreCache EXCEPT ![gets[id].cacheKey] =
                              [marketCap |-> shown.marketCap,
                               volume24h |-> shown.volume24h,
                               changes |-> Changes(None, None, None),
                               timestamp |-> DateNow]]
       /\ shown' = [shown EXCEPT !.changes = Changes(None, None, None),
                                 !.loadingMarketData = FALSE]
       /\ gets' = [gets EXCEPT ![id] = Finished(gets[id], "default")]

\* the catch block and the finally block of fetchMarketData
Catch(id) ==
  LET cached == gets[id].cached IN
  /\ UNCHANGED coinloreCache
  /\ IF cached # None
     THEN /\ shown' = Show(ValueOf(cached))
          /\ gets' = [gets EXCEPT ![id] = Finished(gets[id], "stale")]
     ELSE /\ shown' = [shown EXCEPT !.changes = Changes(None, None, None),
                                    !.loadingMarketData = FALSE]
          /\ gets' = [gets EXCEPT ![id] = Finished(gets[id], "default")]

\* getBtcMarketData throws
MarketDataFails ==
  /\ \E id \in 1..Len(gets), kind \in TickerFailures :
       /\ gets[id].stage = "marketData"
       /\ Catch(id)
  /\ UNCHANGED <<appCurrency, clock, marketDataInterval, serviceVars, pageVars, toolVars>>

\* getBtcPriceChanges throws
PriceChangesFail ==
  /\ \E id \in 1..Len(gets), kind \in TickerFailures :
       /\ gets[id].stage = "priceChanges"
       /\ Catch(id)
  /\ UNCHANGED <<appCurrency, clock, marketDataInterval, serviceVars, pageVars, toolVars>>

MarketNext ==
  \/ Mount
  \/ SelectCurrency
  \/ IntervalFires
  \/ Tick
  \/ MarketDataAnswers
  \/ PriceChangesAnswer
  \/ MarketDataFails
  \/ PriceChangesFail

MarketSpec ==
  Init /\ [][MarketNext]_vars

(***************************************************************************)
(* Vocabulary of the cache properties.                                     *)
(***************************************************************************)
\* a step in which fetchMarketData is called
IsGet ==
  Len(gets') = Len(gets) + 1

\* the call made by the step
NewGet ==
  gets'[Len(gets')]

\* the call invoked the wrapped fetch
Fetched(get) ==
  get.outcome # "hit"

\* a step in which the call `id` returns after its fetch
Returns(id, outcome) ==
  /\ id <= Len(gets)
  /\ gets[id].stage # "done"
  /\ gets'[id].stage = "done"
  /\ gets'[id].outcome = outcome

\* minutes, in milliseconds
Minutes(m) ==
  m * 60 * 1000

\* C13 as the claim has it: any two non-forced calls for the same key made
\* less than the ttl apart invoke the wrapped fetch exactly once.
C13_OneFetch ==
  \A i, j \in 1..Len(gets) :
    (/\ i < j
     /\ gets[i].cacheKey = gets[j].cacheKey
     /\ gets[i].useCache /\ gets[j].useCache
     /\ Minutes(gets[j].at - gets[i].at) < COINLORE_CACHE_DURATION)
    => (Fetched(gets[i]) /\ ~Fetched(gets[j]))

\* C13, amended: a call of fetchMarketData shows the cached value without
\* invoking the wrapped fetch exactly when it is not forced and an entry of
\* its key exists with now - timestamp < ttl, and invokes the fetch otherwise
\* (no entry, expired entry, forced refresh); so a non-forced call made less
\* than the ttl after a non-forced call for the same key whose fetch has
\* succeeded by then is served from the cache: the two invoke one fetch.
C13_CacheHit ==
  [][IsGet =>
       LET entry == coinloreCache[NewGet.cacheKey] IN
       /\ NewGet.at = clock
       /\ ~Fetched(NewGet) <=>
            /\ NewGet.useCache
            /\ entry # None
            /\ Minutes(clock) - entry.timestamp < 30 * 60 * 1000
       /\ ~Fetched(NewGet) =>
            /\ shown' = [marketCap |-> entry.marketCap, volume24h |-> entry.volume24h,
                         changes |-> entry.changes, loadingMarketData |-> FALSE]
            /\ NewGet.stage = "done"
       /\ Fetched(NewGet) => NewGet.stage = "marketData"
       /\ \A i \in 1..Len(gets) :
            (/\ gets[i].cacheKey = NewGet.cacheKey
             /\ gets[i].useCache /\ NewGet.useCache
             /\ gets[i].outcome = "fresh"
             /\ Minutes(clock - gets[i].at) < 30 * 60 * 1000)
            => ~Fetched(NewGet)
       /\ coinloreCache' = coinloreCache]_vars

\* USD fetched at mount, EUR picked, USD picked again 15 minutes after the
\* mount: the third call is served from the cache
C13_Witness ==
  /\ Len(gets) = 3
  /\ gets[1].cacheKey = "market_usd" /\ gets[1].useCache /\ gets[1].outcome = "fresh"
  /\ gets[3].cacheKey = "market_usd" /\ gets[3].useCache /\ gets[3].outcome = "hit"
  /\ gets[3].at - gets[1].at = 15
  /\ shown.marketCap = coinloreCache["market_usd"].marketCap

\* C14: when the wrapped fetch of a call succeeds, the entry of the call's
\* key becomes the fresh value with timestamp Date.now(), the fresh value is
\* what the call shows, and the entries of the other keys stay as they are;
\* nothing else ever changes the cache.
C14_Replace ==
  [][/\ \A id \in 1..Len(gets) :
          Returns(id, "fresh") =>
            LET key == gets[id].cacheKey
                marketData == gets[id].marketData
            IN /\ coinloreCache'[key].timestamp = Minutes(clock)
               /\ coinloreCache'[key].marketCap = marketData.marketCap
               /\ coinloreCache'[key].volume24h = marketData.volume24h
               /\ coinloreCache'[key].changes["24h"] = marketData.change24h
               /\ shown' = [marketCap |-> coinloreCache'[key].marketCap,
                            volume24h |-> coinloreCache'[key].volume24h,
                            changes |-> coinloreCache'[key].changes,
                            loadingMarketData |-> FALSE]
               /\ \A other \in CacheKeys \ {key} :
                    coinloreCache'[other] = coinloreCache[other]
     /\ coinloreCache' # coinloreCache =>
          \E id \in 1..Len(gets) : Returns(id, "fresh")]_vars

\* the USD entry of minute 0 replaced at minute 30 while the EUR entry of
\* minute 15 stays
C14_Witness ==
  /\ Len(gets) = 3
  /\ gets[1].cacheKey = "market_usd" /\ gets[1].outcome = "fresh"
  /\ gets[2].cacheKey = "market_eur" /\ gets[2].outcome = "fresh"
  /\ gets[3].cacheKey = "market_usd" /\ gets[3].outcome = "fresh"
  /\ coinloreCache["market_usd"] # None /\ coinloreCache["market_eur"] # None
  /\ coinloreCache["market_usd"].timestamp = Minutes(30)
  /\ coinloreCache["market_eur"].timestamp = Minutes(15)
  /\ shown.marketCap = coinloreCache["market_usd"].marketCap
  /\ shown.marketCap # coinloreCache["market_eur"].marketCap

\* a step in which the wrapped fetch of the call `id` fails
FetchFails(id) ==
  /\ id <= Len(gets)
  /\ gets[id].stage # "done"
  /\ gets'[id].stage = "done"
  /\ gets'[id].outcome # "fresh"

\* C15: when the wrapped fetch of a call fails and the call found an entry
\* for its key, expired or not, the call shows that entry's value, raises no
\* error, and leaves the cache (values and timestamps) exactly as it was.
C15_ServeStale ==
  [][\A id \in 1..Len(gets) :
       (FetchFails(id) /\ gets[id].cached # None) =>
         /\ gets'[id].outcome = "stale"
         /\ shown' = [marketCap |-> gets[id].cached.marketCap,
                      volume24h |-> gets[id].cached.volume24h,
                      changes |-> gets[id].cached.changes,
                      loadingMarketData |-> FALSE]
         /\ coinloreCache' = coinloreCache]_vars

\* the forced refresh of minute 30 fails: the USD entry of minute 0, expired
\* by then, is shown and stays
C15_Witness ==
  /\ Len(gets) = 2 /\ clock = 30
  /\ gets[1].cacheKey = "market_usd" /\ gets[1].outcome = "fresh"
  /\ gets[2].cacheKey = "market_usd" /\ ~gets[2].useCache /\ gets[2].at = 30
  /\ gets[2].outcome = "stale"
  /\ coinloreCache["market_usd"] # None
  /\ coinloreCache["market_usd"].timestamp = 0
  /\ shown.marketCap = coinloreCache["market_usd"].marketCap
  /\ ~shown.loadingMarketData

\* C16 as the claim has it: when the wrapped fetch of a call fails and the
\* call found no entry for its key, the failure reaches the caller: the call
\* ends as thrown, shows no default, and creates no entry.
C16_Propagates ==
  [][\A id \in 1..Len(gets) :
       (FetchFails(id) /\ gets[id].cached = None) =>
         /\ gets'[id].outcome = "thrown"
         /\ shown'.changes = shown.changes
         /\ coinloreCache' = coinloreCache]_vars

\* C16, amended: when the wrapped fetch of a call fails and the call found no
\* entry for its key, the call catches the failure: it shows null for the
\* three changes, leaves the shown market cap and volume as they are (also
\* when they are another currency's), ends loading, and creates no entry.
C16_Defaults ==
  [][\A id \in 1..Len(gets) :
       (FetchFails(id) /\ gets[id].cached = None) =>
         /\ gets'[id].outcome = "default"
         /\ shown' = [marketCap |-> shown.marketCap,
                      volume24h |-> shown.volume24h,
                      changes |-> Changes(None, None, None),
                      loadingMarketData |-> FALSE]
         /\ coinloreCache' = coinloreCache]_vars

\* USD was fetched and shown, then EUR is picked and its fetch fails: no EUR
\* entry, null changes, and the USD market cap still on display
C16_Witness ==
  /\ Len(gets) = 2 /\ appCurrency = "EUR"
  /\ gets[1].cacheKey = "market_usd" /\ gets[1].outcome = "fresh"
  /\ gets[2].cacheKey = "market_eur" /\ gets[2].outcome = "default"
  /\ coinloreCache["market_eur"] = None
  /\ coinloreCache["market_usd"] # None
  /\ shown.marketCap = coinloreCache["market_usd"].marketCap
  /\ shown.changes = Changes(None, None, None)
  /\ ~shown.loadingMarketData

\* the call `id` is in flight: its wrapped fetch has not settled
InFlight(id) ==
  id <= Len(gets) /\ gets[id].stage # "done"

\* C24: two overlapping refreshes of a key are not deduplicated: a call made
\* while another call for its key is in flight, and not served from the
\* cache, invokes the wrapped fetch itself and leaves the other in flight;
\* and when a call's fetch succeeds after a call for the same key that began
\* later has already succeeded, the entry becomes the value of the call that
\* completes now, the one begun first (last writer wins).
C24_LastWriterWins ==
  [][\A id \in 1..MaxGets :
       /\ (IsGet /\ InFlight(id) /\ gets[id].cacheKey = NewGet.cacheKey
              /\ ~(NewGet.useCache /\ coinloreCache[NewGet.cacheKey] # None
                     /\ Minutes(clock) - coinloreCache[NewGet.cacheKey].timestamp
                          < 30 * 60 * 1000))
            => /\ NewGet.stage = "marketData"
               /\ gets'[id] = gets[id]
       /\ \A j \in 1..MaxGets :
            (/\ id < j /\ j <= Len(gets)
             /\ gets[j].cacheKey = gets[id].cacheKey
             /\ gets[j].outcome = "fresh"
             /\ Returns(id, "fresh"))
            => /\ coinloreCache'[gets[id].cacheKey].marketCap = gets[id].marketData.marketCap
               /\ coinloreCache'[gets[id].cacheKey].volume24h = gets[id].marketData.volume24h
               /\ coinloreCache'[gets[id].cacheKey].timestamp = Minutes(clock)
               /\ shown'.marketCap = gets[id].marketData.marketCap]_vars

\* the USD call of the mount is still in flight when USD is picked again at
\* minute 15; the later call succeeds at minute 15, the earlier one at
\* minute 30, and the entry is the one written at minute 30
C24_Witness ==
  /\ Len(gets) = 3
  /\ gets[1].cacheKey = "market_usd" /\ gets[1].at = 0
  /\ gets[1].outcome = "fresh" /\ gets[1].doneAt = 30
  /\ gets[3].cacheKey = "market_usd" /\ gets[3].at = 15
  /\ gets[3].outcome = "fresh" /\ gets[3].doneAt = 15
  /\ coinloreCache["market_usd"].timestamp = Minutes(30)
  /\ shown.marketCap = coinloreCache["market_usd"].marketCap

\* the market caps and the volumes getBtcMarketData may return for a
\* currency; a converted value (rate 2) is no USD value
MarketCapsOf(currency) ==
  {MarketData(btc, currency, exchangeRate).marketCap :
     btc \in Tickers, exchangeRate \in ExchangeRates(currency)}

VolumesOf(currency) ==
  {MarketData(btc, currency, exchangeRate).volume24h :
     btc \in Tickers, exchangeRate \in ExchangeRates(currency)}

\* C28: whenever loadingMarketData is false the displayed marketCap and
\* volume24h are null or values fetched (or cached) for the selected
\* currency, never those of another currency.
C28_OwnCurrency ==
  ~shown.loadingMarketData =>
    /\ shown.marketCap \in {None} \cup MarketCapsOf(appCurrency)
    /\ shown.volume24h \in {None} \cup VolumesOf(appCurrency)

(***************************************************************************)
(* Page: fetchPrice and fetchCandles of App and the effects that call them.*)
(***************************************************************************)
\* the currencies and windows the menus are used with
PageCurrencies ==
  {"USD", "EUR"}

PageWindows ==
  {"24h", "7d"}

\* amounts getBtcSpotPrice(currency) may resolve to
SpotAmounts(currency) ==
  IF currency = "USD" THEN {Num(65000), Num(65100)} ELSE {Num(60450)}

\* series getBtcCandlesForTimeWindow(currency, timeWindow) may resolve to:
\* none, or two candles a window's bucket apart priced in the currency at the
\* level of the window's start
CandleData(currency, timeWindow) ==
  LET step == IF timeWindow = "24h" THEN 7200 ELSE 86400
      usd == IF timeWindow = "24h" THEN 100 ELSE 200
      price == IF currency = "USD" THEN usd ELSE (usd * 93) \div 100
  IN {<<>>,
      <<[time |-> 0, open |-> price, close |-> price + 1],
        [time |-> step, open |-> price + 1, close |-> price + 2]>>}

\* err.message
Message(text) ==
  [message |-> text]

Fetch(kind, currency, timeWindow) ==
  [kind |-> kind, currency |-> currency, timeWindow |-> timeWindow,
   state |-> "pending"]

\* fetchPrice up to its await
FetchPrice(state) ==
  [state EXCEPT !.loading = TRUE, !.error = None]

\* fetchCandles up to its await
FetchCandles(state) ==
  [state EXCEPT !.loadingCandles = TRUE]

\* a / b rounded to the nearest integer, for a >= 0 and b > 0
RoundDiv(a, b) ==
  (2 * a + b) \div (2 * b)

\* calculatePriceChanges(candleData, timeWindow): the change in percent,
\* rounded to two decimals by toFixed(2), as a number of hundredths; the
\* series of the model do not fall
calculatePriceChanges(candleData) ==
  IF Len(candleData) = 0 THEN None
  ELSE LET startPrice == candleData[1].open
           endPrice == candleData[Len(candleData)].close
       IN IF startPrice = 0 THEN None
          ELSE Num(RoundDiv((endPrice - startPrice) * 100 * 100, startPrice))

\* the effect on [candles, timeWindow]: it runs in the render that follows a
\* setCandles (every array is a new one) or a change of timeWindow
UpdatePriceChanges(state) ==
  IF Len(state.candles) = 0 THEN state
  ELSE [state EXCEPT !.changes[state.timeWindow] = calculatePriceChanges(state.candles)]

\* the first run of the effects
MountPage ==
  /\ ~ui.mounted
  /\ Len(fetches) + 2 <= MaxFetches
  /\ ui' = [FetchCandles(FetchPrice(ui)) EXCEPT !.mounted = TRUE]
  /\ fetches' = fetches \o <<Fetch("price", ui.currency, ui.timeWindow),
                             Fetch("candles", ui.currency, ui.timeWindow)>>
  /\ UNCHANGED <<serviceVars, marketVars, toolVars>>

\* the user picks another currency: both effects run again
PickCurrency ==
  /\ ui.mounted
  /\ Len(fetches) + 2 <= MaxFetches
  /\ \E currency \in PageCurrencies \ {ui.currency} :
       /\ ui' = [FetchCandles(FetchPrice(ui)) EXCEPT !.currency = currency]
       /\ fetches' = fetches \o <<Fetch("price", currency, ui.timeWindow),
                                  Fetch("candles", currency, ui.timeWindow)>>
  /\ UNCHANGED <<serviceVars, marketVars, toolVars>>

\* the user picks another window: the effect on [candles, timeWindow] runs
\* with the candles on display and the candle effect runs again
PickTimeWindow ==
  /\ ui.mounted
  /\ Len(fetches) + 1 <= MaxFetches
  /\ \E timeWindow \in PageWindows \ {ui.timeWindow} :
       /\ ui' = UpdatePriceChanges([FetchCandles(ui) EXCEPT !.timeWindow = timeWindow])
       /\ fetches' = Append(fetches, Fetch("candles", ui.currency, timeWindow))
  /\ UNCHANGED <<serviceVars, marketVars, toolVars>>

\* setInterval(fetchPrice, 30000) of the current effect run
PriceIntervalFires ==
  /\ ui.mounted
  /\ Len(fetches) + 1 <= MaxFetches
  /\ ui' = FetchPrice(ui)
  /\ fetches' = Append(fetches, Fetch("price", ui.currency, ui.timeWindow))
  /\ UNCHANGED <<serviceVars, marketVars, toolVars>>

\* setInterval(fetchCandles, refreshInterval) of the current effect run
CandleIntervalFires ==
  /\ ui.mounted
  /\ Len(fetches) + 1 <= MaxFetches
  /\ ui' = FetchCandles(ui)
  /\ fetches' = Append(fetches, Fetch("candles", ui.currency, ui.timeWindow))
  /\ UNCHANGED <<serviceVars, marketVars, toolVars>>

\* what fetchPrice does with the resolved price
PriceResolved(state, amount) ==
  [state EXCEPT !.currentPrice = amount, !.loading = FALSE]

\* `await coinbaseApi.getBtcSpotPrice(currency)` resumes with priceData
PriceResolves ==
  /\ \E id \in 1..Len(fetches) :
       /\ fetches[id].kind = "price" /\ fetches[id].state = "pending"
       /\ \E amount \in SpotAmounts(fetches[id].currency) :
            ui' = PriceResolved(ui, amount)
       /\ fetches' = [fetches EXCEPT ![id].state = "resolved"]
  /\ UNCHANGED <<serviceVars, marketVars, toolVars>>

\* getBtcSpotPrice throws
PriceRejects ==
  /\ \E id \in 1..Len(fetches) :
       /\ fetches[id].kind = "price" /\ fetches[id].state = "pending"
       /\ ui' = [ui EXCEPT !.error = Message("API request failed"), !.loading = FALSE]
       /\ fetches' = [fetches EXCEPT ![id].state = "rejected"]
  /\ UNCHANGED <<serviceVars, marketVars, toolVars>>

\* `await coinbaseApi.getBtcCandlesForTimeWindow(...)` resumes with candleData
CandlesResolve ==
  /\ \E id \in 1..Len(fetches) :
       /\ fetches[id].kind = "candles" /\ fetches[id].state = "pending"
       /\ \E candleData \in CandleData(fetches[id].currency, fetches[id].timeWindow) :
            ui' = UpdatePriceChanges([ui EXCEPT !.candles = candleData,
                                                !.loadingCandles = FALSE])
       /\ fetches' = [fetches EXCEPT ![id].state = "resolved"]
  /\ UNCHANGED <<serviceVars, marketVars, toolVars>>

\* getBtcCandlesForTimeWindow throws
CandlesReject ==
  /\ \E id \in 1..Len(fetches) :
       /\ fetches[id].kind = "candles" /\ fetches[id].state = "pending"
       /\ ui' = UpdatePriceChanges([ui EXCEPT !.candles = <<>>, !.loadingCandles = FALSE])
       /\ fetches' = [fetches EXCEPT ![id].state = "rejected"]
  /\ UNCHANGED <<serviceVars, marketVars, toolVars>>

PageNext ==
  \/ MountPage
  \/ PickCurrency
  \/ PickTimeWindow
  \/ PriceIntervalFires
  \/ CandleIntervalFires
  \/ PriceResolves
  \/ PriceRejects
  \/ CandlesResolve
  \/ CandlesReject

PageSpec ==
  Init /\ [][PageNext]_vars

(***************************************************************************)
(* Superseded requests of the page.                                        *)
(***************************************************************************)
\* the fetch was made for a currency or window that is no longer selected
Superseded(fetch) ==
  \/ fetch.currency # ui.currency
  \/ fetch.kind = "candles" /\ fetch.timeWindow # ui.timeWindow

\* this step is the arrival of the result of fetch `id`
Arrives(id) ==
  /\ id \in 1..Len(fetches)
  /\ fetches[id].state = "pending"
  /\ fetches'[id].state # "pending"

\* C17: when a request is superseded (the user changed currency or window
\* while the spot-price or candle fetch was in flight), its late result is
\* discarded: the arrival of the result of a fetch made for a currency or
\* window other than the selected one leaves the displayed price, candles
\* and error as they are.
C17_LateDiscarded ==
  [][\A id \in 1..MaxFetches :
       Arrives(id) /\ Superseded(fetches[id])
         => /\ ui'.currentPrice = ui.currentPrice
            /\ ui'.candles = ui.candles
            /\ ui'.error = ui.error]_vars

(***************************************************************************)
(* The two requests of the 1y window.                                      *)
(***************************************************************************)
\* the answers by which a candle request fails
CandleFailures ==
  {"reject", "notOk", "notArray"}

\* C23: for the 1y window the series passed to aggregation is the result of
\* the older request ([now-365d, now-180d]) followed by the result of the
\* newer request ([now-180d, now]), in that order; the older request is
\* answered before the newer one is issued, so no order of arrival changes
\* this; a failure of either request fails the whole call, no further
\* request is made and no partial series is returned.
C23_CallOrder ==
  (call.op = "candles" /\ call.timeWindow = "1y") =>
    LET requests == RequestsTo("candles") IN
    /\ Len(requests) = 2 =>
         /\ requests[1].end = call.now - 180 * SecondsPerDay
         /\ requests[2].start = call.now - 180 * SecondsPerDay
         /\ requests[1].out = "array"
         /\ \A i \in 1..Len(cb.firstHalf) : cb.firstHalf[i].time <= requests[1].end
    /\ PastCandles =>
         /\ Len(requests) = 2
         /\ cb.rawCandles = cb.firstHalf \o cb.secondHalf
         /\ cb.usdCandles = aggregateCandles(cb.firstHalf \o cb.secondHalf, 30)
         /\ \A i \in 1..Len(cb.secondHalf) :
              cb.secondHalf[i].time >= BucketStart(requests[2].start, 86400)
    /\ \A i \in 1..Len(requests) :
         requests[i].out \in CandleFailures =>
           /\ Failed
           /\ result.candles = <<>>
           /\ i = Len(log)

\* 24 candles of the older request, then 31 of the newer one
C23_Witness ==
  /\ call.op = "candles" /\ call.timeWindow = "1y" /\ Succeeded
  /\ Len(cb.firstHalf) = 24 /\ Len(cb.secondHalf) = 31
  /\ cb.rawCandles[1] = cb.firstHalf[1]
  /\ cb.rawCandles[55] = cb.secondHalf[31]
  /\ cb.firstHalf[24].time < cb.secondHalf[1].time

(***************************************************************************)
(* The frame of the conversion.                                            *)
(***************************************************************************)
\* the call returned the series convertCandlesFromUsd made of cb.usdCandles
Converted ==
  /\ call.op = "candles" /\ Succeeded
  /\ toUpperCase(call.currency) # "USD"
  /\ Len(cb.usdCandles) > 0

\* C29: the conversion of a candle series leaves the number of candles,
\* their order and every candle's time as they are: the i-th converted
\* candle has the time and the fields of the i-th USD candle, and the USD
\* series itself is afterwards what it was before the conversion (the
\* window's aggregation of the raw candles).
C29_Frame ==
  Converted =>
    /\ Len(result.candles) = Len(cb.usdCandles)
    /\ \A i \in 1..Len(cb.usdCandles) :
         /\ result.candles[i].time = cb.usdCandles[i].time
         /\ DOMAIN result.candles[i] = DOMAIN cb.usdCandles[i]
    /\ cb.usdCandles = WindowCandles(call.timeWindow, cb.rawCandles)

\* the twelve two-hour candles of a day converted to EUR: same times, other
\* prices
C29_Witness ==
  /\ Converted
  /\ call.currency = "EUR" /\ call.timeWindow = "24h"
  /\ Len(cb.rawCandles) = 24
  /\ Len(cb.usdCandles) = 12 /\ Len(result.candles) = 12
  /\ result.candles[1].time < result.candles[12].time
  /\ result.candles[12].time = cb.usdCandles[12].time
  /\ result.candles[12].close # cb.usdCandles[12].close

(***************************************************************************)
(* Symmetry of the triangulation.                                          *)
(***************************************************************************)
IsPositive(x) ==
  x.k = "fin" /\ x.n > 0 /\ x.d > 0

\* getExchangeRate(base, target) returned a rate triangulated over the pivot
\* from two positive pivot rates
Triangulated ==
  /\ call.op = "rate" /\ Succeeded
  /\ fx.base # "EUR" /\ fx.target # "EUR" /\ fx.base # fx.target
  /\ IsPositive(fx.eurToBase) /\ IsPositive(fx.eurToTarget)

\* C21: for two distinct non-pivot currencies A and B and a fixed state of
\* the FX source, getExchangeRate(A, B) times getExchangeRate(B, A) is 1: the
\* rate returned for (A, B) times the rate case 3 computes for (B, A), whose
\* base is this call's target and which gets the same positive pivot rates,
\* is 1 (the rates are exact here, so nothing is left to rounding).
C21_Symmetry ==
  Triangulated =>
    Mul(result.rate, Triangulate(fx.eurToTarget, fx.eurToBase)) = N(1)

\* 4000/27 JPY per USD times 27/4000 USD per JPY
C21_Witness ==
  /\ Triangulated
  /\ fx.base = "USD" /\ fx.target = "JPY"
  /\ result.rate = Fin(4000, 27)
  /\ Triangulate(fx.eurToTarget, fx.eurToBase) = Fin(27, 4000)

(***************************************************************************)
(* The changes of the page.                                                *)
(***************************************************************************)
\* the changes that series fetched for the currency and the window give
ChangesOf(currency, timeWindow) ==
  {calculatePriceChanges(candleData) :
     candleData \in CandleData(currency, timeWindow) \ {<<>>}}

\* C27: for every window w, a non-null changes[w] was computed from a candle
\* series fetched for w and for the selected currency.
C27_OwnSeries ==
  \A w \in PageWindows :
    ui.changes[w] # None => ui.changes[w] \in ChangesOf(ui.currency, w)

(***************************************************************************)
(* Timeouts of the upstream calls.                                         *)
(***************************************************************************)
\* C18: every upstream call (spot price, candles, FX) is bounded by a
\* timeout: when the upstream does not answer, the call completes with a
\* failure, so no call is still suspended in its request after the upstream
\* has been silent for the whole period a behaviour follows (MaxWait units,
\* however many they are).
C18_TimedOut ==
  Awaiting => waited < MaxWait

(***************************************************************************)
(* Currency list: testCurrency and generateCurrencyList.                   *)
(***************************************************************************)
Forms ==
  {"script", "helper"}

\* days of the range testCurrency asks for
TestRangeDays == 7

\* `rate && !isNaN(rate) && rate > 0`
HasData(rate) ==
  Truthy(rate) /\ rate.k # "nan" /\ ~Leq(rate, N(0))

\* Array.prototype.sort on currency codes
Alphabetical ==
  <<"BGN", "JPY", "USD">>

Sort(codes) ==
  SelectSeq(Alphabetical, LAMBDA code : \E i \in 1..Len(codes) : codes[i] = code)

getCurrencyName(form, code) ==
  CASE code = "USD" -> "United States Dollar"
    [] code = "JPY" -> "Japanese Yen"
    [] code = "BGN" /\ form = "script" -> "Bulgarian Lev"
    [] OTHER -> code \o " Currency"

\* a request for D.{currency}.EUR over the last `days` days and its answer
ListRequest(currency, days, out, value) ==
  [key |-> currency, days |-> days, out |-> out, value |-> value]

\* the currency under test
UnderTest ==
  POTENTIAL_ECB_CURRENCIES[gen.i]

\* generateCurrencyList is called, in one of its forms, and tests the first
\* currency
CallGenerateCurrencyList ==
  /\ gen.awaiting = "none" /\ gen.i = 0
  /\ \E form \in Forms :
       gen' = [NoRun EXCEPT !.form = form, !.i = 1, !.awaiting = "primary"]
  /\ UNCHANGED <<serviceVars, marketVars, pageVars, parse, pivot, coinlore>>

\* testCurrency returns {currency, hasData} to the loop of
\* generateCurrencyList, which goes on to the next currency or returns
TestReturns(requests, hasData) ==
  LET withData == IF hasData THEN Append(gen.currenciesWithData, UnderTest)
                  ELSE gen.currenciesWithData
      results == Append(gen.results, [currency |-> UnderTest, hasData |-> hasData,
                                      requests |-> requests])
  IN IF gen.i < Len(POTENTIAL_ECB_CURRENCIES)
     THEN gen' = [gen EXCEPT !.i = gen.i + 1, !.awaiting = "primary",
                             !.requests = <<>>, !.results = results,
                             !.currenciesWithData = withData]
     ELSE gen' = [gen EXCEPT !.awaiting = "returned", !.requests = <<>>,
                             !.results = results,
                             !.currenciesWithData = Sort(withData),
                             !.currencyList =
                               [k \in 1..Len(Sort(withData)) |->
                                  [id |-> Sort(withData)[k],
                                   name |-> getCurrencyName(gen.form, Sort(withData)[k])]]]

\* the 7-day request fails (or, in the script, is aborted after 10 seconds)
TestRequestFails ==
  /\ gen.awaiting = "primary"
  /\ \E kind \in FailureKinds \cup (IF gen.form = "script" THEN {"abort"} ELSE {}) :
       TestReturns(Append(gen.requests, ListRequest(UnderTest, TestRangeDays, "failed", NaN)),
                   FALSE)
  /\ UNCHANGED <<serviceVars, marketVars, pageVars, parse, pivot, coinlore>>

\* the 7-day request is answered without observations: the script reports no
\* data; the helper's _getEurToCurrencyRate goes on to its fallback request
TestRequestEmpty ==
  /\ gen.awaiting = "primary"
  /\ \E kind \in EmptyKinds :
       LET requests == Append(gen.requests,
                              ListRequest(UnderTest, TestRangeDays, "empty", NaN))
       IN IF gen.form = "script"
          THEN TestReturns(requests, FALSE)
          ELSE gen' = [gen EXCEPT !.awaiting = "fallback", !.requests = requests]
  /\ UNCHANGED <<serviceVars, marketVars, pageVars, parse, pivot, coinlore>>

\* the 7-day request is answered with observations
TestRequestData ==
  /\ gen.awaiting = "primary"
  /\ \E observations \in ObservationMaps :
       LET rate == LatestObservation(observations) IN
       TestReturns(Append(gen.requests, ListRequest(UnderTest, TestRangeDays, "data", rate)),
                   HasData(rate))
  /\ UNCHANGED <<serviceVars, marketVars, pageVars, parse, pivot, coinlore>>

\* the helper's fallback request fails or is answered without observations:
\* _getEurToCurrencyRateFallback throws
TestFallbackThrows ==
  /\ gen.awaiting = "fallback"
  /\ \E kind \in FailureKinds \cup EmptyKinds :
       TestReturns(Append(gen.requests,
                          ListRequest(UnderTest, FallbackRangeDays, Outcome(kind), NaN)),
                   FALSE)
  /\ UNCHANGED <<serviceVars, marketVars, pageVars, parse, pivot, coinlore>>

\* the helper's fallback request is answered with observations
TestFallbackData ==
  /\ gen.awaiting = "fallback"
  /\ \E observations \in ObservationMaps :
       LET rate == LatestObservation(observations) IN
       TestReturns(Append(gen.requests,
                          ListRequest(UnderTest, FallbackRangeDays, "data", rate)),
                   HasData(rate))
  /\ UNCHANGED <<serviceVars, marketVars, pageVars, parse, pivot, coinlore>>

ListNext ==
  \/ CallGenerateCurrencyList
  \/ TestRequestFails
  \/ TestRequestEmpty
  \/ TestRequestData
  \/ TestFallbackThrows
  \/ TestFallbackData

ListSpec ==
  Init /\ [][ListNext]_vars

\* C22: generateCurrencyList includes a currency in the generated list only
\* if the FX source returned actual data for it within the last 7 days: for
\* every currency of the returned list the 7-day request was answered with a
\* positive rate, and a currency whose 7-day request was answered without
\* observations is not in the list.
C22_SevenDays ==
  gen.awaiting = "returned" =>
    \A k \in 1..Len(gen.currencyList) :
      \E r \in 1..Len(gen.results) :
        /\ gen.results[r].currency = gen.currencyList[k].id
        /\ gen.results[r].requests[1].days = TestRangeDays
        /\ gen.results[r].requests[1].out = "data"
        /\ HasData(gen.results[r].requests[1].value)

(***************************************************************************)
(* getBtcCandles called directly.                                          *)
(***************************************************************************)
\* the entries an answer may hold: two tuples of six elements, one of seven,
\* one of five, and an entry that is no array
Tuples ==
  {Row(<<100, 1, 4, 2, 3, 5>>),
   Row(<<200, 6, 9, 7, 8, 0>>),
   Row(<<300, 2, 3, 3, 2, 1, 77>>),
   Row(<<400, 1, 2, 1, 2>>),
   NotAnArray}

\* the arrays the candle source may answer with
TupleArrays ==
  UNION {[1..n -> Tuples] : n \in 0..MaxTuples}

\* getBtcCandles(currency, granularity, start, end) up to `await fetch(...)`
CallGetBtcCandles ==
  /\ parse.out = "none"
  /\ \E currency \in Currencies :
       IF toUpperCase(currency) # "USD"
       THEN parse' = [NoParse EXCEPT !.currency = currency, !.out = "threw",
                                     !.error = "getBtcCandles should only be called with USD"]
       ELSE parse' = [NoParse EXCEPT !.currency = currency, !.out = "pending"]
  /\ UNCHANGED <<serviceVars, marketVars, pageVars, gen, pivot, coinlore>>

\* the request fails, answers with an error status or with a body that is
\* no array
GetBtcCandlesThrows ==
  /\ parse.out = "pending"
  /\ \E kind \in {"reject", "notOk", "notArray"} :
       parse' = [parse EXCEPT !.answer = kind, !.out = "threw",
                              !.error = IF kind = "notArray"
                                        THEN "Invalid response format from API"
                                        ELSE "API request failed"]
  /\ UNCHANGED <<serviceVars, marketVars, pageVars, gen, pivot, coinlore>>

\* the request answers with an array
GetBtcCandlesReturns ==
  /\ parse.out = "pending"
  /\ \E data \in TupleArrays :
       parse' = [parse EXCEPT !.answer = "array", !.data = data, !.out = "returned",
                              !.candles = ParseCandles(data)]
  /\ UNCHANGED <<serviceVars, marketVars, pageVars, gen, pivot, coinlore>>

ParseNext ==
  \/ CallGetBtcCandles
  \/ GetBtcCandlesThrows
  \/ GetBtcCandlesReturns

ParseSpec ==
  Init /\ [][ParseNext]_vars

\* the entries of an answer that are arrays of at least 6 elements, in the
\* order of the answer
WellFormedTuples(data) ==
  SelectSeq(data, LAMBDA entry : entry.isArray /\ Len(entry.items) >= 6)

\* C25: getBtcCandles turns a newest-first array of tuples into the
\* oldest-first sequence of exactly its well-formed tuples (arrays of at
\* least 6 elements): the i-th candle is the i-th well-formed tuple from the
\* end, its positions 0..5 read as time, low, high, open, close and volume;
\* the other entries are dropped, and a call answered with an array returns
\* whatever the entries are.
C25_Tuples ==
  /\ parse.answer = "array" => parse.out = "returned"
  /\ parse.out = "returned" =>
       LET tuples == WellFormedTuples(parse.data)
           n == Len(tuples)
       IN /\ Len(parse.candles) = n
          /\ \A i \in 1..n :
               LET items == tuples[n + 1 - i].items
                   candle == parse.candles[i]
               IN /\ candle.time = items[1]
                  /\ candle.low = N(items[2])
                  /\ candle.high = N(items[3])
                  /\ candle.open = N(items[4])
                  /\ candle.close = N(items[5])
                  /\ candle.volume = N(items[6])

\* newest first: a tuple of five, the tuple of time 200, an entry that is
\* no array, then the tuple of time 100; the candles are those of 100 and 200
C25_Witness ==
  /\ parse.out = "returned"
  /\ parse.data = <<Row(<<400, 1, 2, 1, 2>>), Row(<<200, 6, 9, 7, 8, 0>>), NotAnArray,
                    Row(<<100, 1, 4, 2, 3, 5>>)>>
  /\ Len(parse.candles) = 2
  /\ parse.candles[1].time = 100 /\ parse.candles[2].time = 200
  /\ parse.candles[2].low = N(6) /\ parse.candles[2].volume = N(0)

(***************************************************************************)
(* Pivot query: _getEurToCurrencyRate and _getEurToCurrencyRateFallback    *)
(* called directly.                                                        *)
(***************************************************************************)
\* the period-index keys a body may use
BodyKeys ==
  {"0", "2", "10"}

\* the observations of a body: entries with different keys, in any order
ObservationBodies ==
  {body \in UNION {[1..n -> [key : BodyKeys, value : ObsValues]] :
                     n \in 1..Cardinality(BodyKeys)} :
     \A i, j \in 1..Len(body) : body[i].key = body[j].key => i = j}

\* series.observations after JSON.parse of the body
ParsedObservations(body) ==
  [key \in {body[i].key : i \in 1..Len(body)} |->
     (CHOOSE entry \in {body[i] : i \in 1..Len(body)} : entry.key = key).value]

CallGetEurToCurrencyRate ==
  /\ pivot.out = "none"
  /\ \E currency \in {"USD", "JPY"} :
       pivot' = [NoPivot EXCEPT !.currency = currency, !.awaiting = "primary",
                                !.out = "pending"]
  /\ UNCHANGED <<serviceVars, marketVars, pageVars, gen, parse, coinlore>>

\* the request in flight fails or has an unparseable body
PivotRequestFails ==
  /\ pivot.out = "pending"
  /\ \E kind \in FailureKinds :
       pivot' = [pivot EXCEPT !.answeredBy = pivot.awaiting, !.awaiting = "none",
                              !.out = "threw", !.error = "ECB API request failed"]
  /\ UNCHANGED <<serviceVars, marketVars, pageVars, gen, parse, coinlore>>

\* the request in flight is answered without observations: the primary one
\* is followed by the fallback request, the fallback one throws
PivotRequestEmpty ==
  /\ pivot.out = "pending"
  /\ \E kind \in EmptyKinds :
       IF pivot.awaiting = "primary"
       THEN pivot' = [pivot EXCEPT !.awaiting = "fallback"]
       ELSE pivot' = [pivot EXCEPT !.answeredBy = "fallback", !.awaiting = "none",
                                   !.out = "threw",
                                   !.error = "No exchange rate data available"]
  /\ UNCHANGED <<serviceVars, marketVars, pageVars, gen, parse, coinlore>>

\* the request in flight is answered with observations
PivotRequestData ==
  /\ pivot.out = "pending"
  /\ \E body \in ObservationBodies :
       pivot' = [pivot EXCEPT !.answeredBy = pivot.awaiting, !.awaiting = "none",
                              !.body = body, !.out = "returned",
                              !.rate = LatestObservation(ParsedObservations(body))]
  /\ UNCHANGED <<serviceVars, marketVars, pageVars, gen, parse, coinlore>>

PivotNext ==
  \/ CallGetEurToCurrencyRate
  \/ PivotRequestFails
  \/ PivotRequestEmpty
  \/ PivotRequestData

PivotSpec ==
  Init /\ [][PivotNext]_vars

\* C26: the pivot query returns the value of the observation whose
\* period-index key is the greatest as an integer ("10" is after "2"), in
\* the primary and in the fallback query, wherever the observation stands in
\* the body.
C26_Latest ==
  pivot.out = "returned" =>
    /\ pivot.answeredBy \in {"primary", "fallback"}
    /\ \E i \in 1..Len(pivot.body) :
         /\ \A j \in 1..Len(pivot.body) :
              parseInt(pivot.body[j].key) <= parseInt(pivot.body[i].key)
         /\ pivot.rate = parseFloat(pivot.body[i].value)

\* the fallback query is answered with the observation of key "10" first
\* and that of key "2" last: the rate is the one of key "10"
C26_Witness ==
  /\ pivot.out = "returned" /\ pivot.answeredBy = "fallback"
  /\ Len(pivot.body) = 3
  /\ pivot.body[1].key = "10" /\ pivot.body[1].value.json = "number"
  /\ pivot.body[1].value.n = 160
  /\ pivot.body[3].key = "2" /\ pivot.body[3].value.n = 27
  /\ pivot.rate = N(160)


(***************************************************************************)
(* CoinLore: getBtcMarketData and getExchangeRate of CoinLoreApi.          *)
(***************************************************************************)
\* the currencies getBtcMarketData is called with
CoinloreCurrencies ==
  Currencies \cup {"eur"}

\* the parsed bodies of the ticker request: no array, an empty array, an
\* array holding null, an array holding a ticker
TickerBodies ==
  {[isArray |-> FALSE, items |-> <<>>],
   [isArray |-> TRUE, items |-> <<>>],
   [isArray |-> TRUE, items |-> <<None>>]}
  \cup {[isArray |-> TRUE, items |-> <<btc>>] : btc \in Tickers}

\* what `fetch(url)` and `response.json()` of the ticker request come to: a
\* rejected fetch, an error status, a body that is no JSON, a parsed body
TickerResponses ==
  {[fetch |-> "reject"], [fetch |-> "notOk"], [fetch |-> "notJson"]}
  \cup {[fetch |-> "json", data |-> data] : data \in TickerBodies}

\* the message of the error the ticker request ends with, "" if none
TickerError(response) ==
  IF response.fetch = "reject" THEN "Failed to fetch"
  ELSE IF response.fetch = "notOk" THEN "API request failed"
  ELSE IF response.fetch = "notJson" THEN "Unexpected token"
  ELSE IF \/ ~response.data.isArray
          \/ Len(response.data.items) = 0
          \/ response.data.items[1] = None
       THEN "Invalid response format from API"
  ELSE ""

\* rates.USD of the exchange-rates answer: USD per unit of the currency, as
\* the fraction n / d that parseFloat reads from its text ("0.5", "0.25", "1")
UsdRates ==
  {[n |-> 1, d |-> 2], [n |-> 1, d |-> 4], [n |-> 1, d |-> 1]}

\* the parsed bodies of the exchange-rates request: null, no `data`, no
\* `rates`, no `USD`, a USD rate
RatesBodies ==
  {None, [data |-> None], [data |-> [rates |-> None]],
   [data |-> [rates |-> [USD |-> None]]]}
  \cup {[data |-> [rates |-> [USD |-> usdRate]]] : usdRate \in UsdRates}

RatesResponses ==
  {[fetch |-> "reject"], [fetch |-> "notOk"], [fetch |-> "notJson"]}
  \cup {[fetch |-> "json", data |-> data] : data \in RatesBodies}

\* the message of the error thrown inside the try block of getExchangeRate,
\* "" if none
ExchangeRateError(response) ==
  IF response.fetch = "reject" THEN "Failed to fetch"
  ELSE IF response.fetch = "notOk" THEN "Failed to fetch exchange rate"
  ELSE IF response.fetch = "notJson" THEN "Unexpected token"
  ELSE IF response.data = None THEN "Cannot read properties of null"
  ELSE IF response.data.data = None THEN "Invalid exchange rate response"
  ELSE IF response.data.data.rates = None THEN "Invalid exchange rate response"
  ELSE IF response.data.data.rates.USD = None THEN "Invalid exchange rate response"
  ELSE ""

\* how a call ends: with a value or with an error
Returned(value) ==
  [out |-> "returned", value |-> value]

Thrown(message) ==
  [out |-> "thrown", message |-> message]

\* faulty variant: the catch block throws the error on
getExchangeRateRethrows(response) ==
  LET error == ExchangeRateError(response) IN
  IF error # "" THEN Thrown(error)
  ELSE LET usdRate == response.data.data.rates.USD
       IN Returned(usdRate.d \div usdRate.n)

\* getExchangeRate(currency) for the answer `response` of its request:
\* `return 1 / usdRate`, and `return 1` in the catch block
getExchangeRate(response) ==
  LET error == ExchangeRateError(response) IN
  IF error # "" THEN Returned(1)
  ELSE LET usdRate == response.data.data.rates.USD
       IN Returned(usdRate.d \div usdRate.n)

\* coinloreApi.getBtcMarketData(currency) up to `await fetch(url)`
CallGetBtcMarketData ==
  /\ coinlore.awaiting = "none"
  /\ \E currency \in CoinloreCurrencies :
       coinlore' = [NoCoinlore EXCEPT !.currency = currency,
                                      !.awaiting = "ticker"]
  /\ UNCHANGED <<serviceVars, marketVars, pageVars, gen, parse, pivot>>

\* the ticker request fails or its body is no non-empty array: the error is
\* logged and thrown on
TickerInvalid ==
  /\ coinlore.awaiting = "ticker"
  /\ \E response \in TickerResponses :
       /\ TickerError(response) # ""
       /\ coinlore' = [coinlore EXCEPT !.awaiting = "none",
                                       !.ticker = response,
                                       !.out = "thrown",
                                       !.error = TickerError(response)]
  /\ UNCHANGED <<serviceVars, marketVars, pageVars, gen, parse, pivot>>

\* the ticker arrives: for USD the object is returned with exchangeRate 1,
\* for another currency the call awaits getExchangeRate(currency)
TickerArrives ==
  /\ coinlore.awaiting = "ticker"
  /\ \E response \in TickerResponses :
       /\ TickerError(response) = ""
       /\ IF toUpperCase(coinlore.currency) # "USD"
          THEN coinlore' = [coinlore EXCEPT !.awaiting = "rates",
                                            !.ticker = response]
          ELSE coinlore' = [coinlore EXCEPT
                              !.awaiting = "none",
                              !.ticker = response,
                              !.out = "returned",
                              !.marketData =
                                 MarketData(response.data.items[1],
                                            coinlore.currency, 1)]
  /\ UNCHANGED <<serviceVars, marketVars, pageVars, gen, parse, pivot>>

\* `exchangeRate = await this.getExchangeRate(currency)` resumes: a thrown
\* error is caught and exchangeRate stays 1; the object is returned
ExchangeRateArrives ==
  /\ coinlore.awaiting = "rates"
  /\ \E response \in RatesResponses :
       LET rate == getExchangeRate(response)
           exchangeRate == IF rate.out = "returned" THEN rate.value
                           ELSE coinlore.exchangeRate
       IN coinlore' = [coinlore EXCEPT
                         !.awaiting = "none",
                         !.rates = response,
                         !.rate = rate,
                         !.exchangeRate = exchangeRate,
                         !.out = "returned",
                         !.marketData =
                            MarketData(coinlore.ticker.data.items[1],
                                       coinlore.currency, exchangeRate)]
  /\ UNCHANGED <<serviceVars, marketVars, pageVars, gen, parse, pivot>>

CoinloreNext ==
  \/ CallGetBtcMarketData
  \/ TickerInvalid
  \/ TickerArrives
  \/ ExchangeRateArrives

CoinloreSpec ==
  Init /\ [][CoinloreNext]_vars

\* the exchange-rates answer holds a USD rate
HasUsdRate(response) ==
  /\ response.fetch = "json"
  /\ response.data # None
  /\ response.data.data # None
  /\ response.data.data.rates # None
  /\ response.data.data.rates.USD # None

\* the ticker answer holds a ticker
HasTicker(response) ==
  /\ response.fetch = "json"
  /\ response.data.isArray
  /\ Len(response.data.items) > 0
  /\ response.data.items[1] # None

\* C30: getExchangeRate never throws, and returns 1 when its request fails,
\* its answer is malformed or holds no USD rate; getBtcMarketData for a
\* non-USD currency then returns the USD price, market cap and volume of the
\* ticker unconverted, labelled with the requested currency in upper case;
\* getBtcMarketData throws only when the ticker request failed or its
\* answer holds no ticker, and returns whenever the ticker arrived.
C30_RateFallback ==
  /\ coinlore.rate # None => coinlore.rate.out = "returned"
  /\ (coinlore.rates # None /\ ~HasUsdRate(coinlore.rates)) =>
       /\ coinlore.rate = Returned(1)
       /\ coinlore.out = "returned"
       /\ LET btc == coinlore.ticker.data.items[1] IN
          /\ coinlore.marketData.price = btc.price_usd
          /\ coinlore.marketData.marketCap = btc.market_cap_usd
          /\ coinlore.marketData.volume24h = btc.volume24
          /\ coinlore.marketData.currency = toUpperCase(coinlore.currency)
  /\ coinlore.out = "thrown" => ~HasTicker(coinlore.ticker)
  /\ (coinlore.awaiting = "none" /\ coinlore.ticker # None
        /\ HasTicker(coinlore.ticker)) => coinlore.out = "returned"

\* getBtcMarketData('eur') with the exchange-rates request answered by an
\* error status: the USD values of the ticker come back labelled EUR
C30_Witness ==
  /\ coinlore.currency = "eur"
  /\ coinlore.rates = [fetch |-> "notOk"]
  /\ coinlore.rate = Returned(1)
  /\ coinlore.out = "returned"
  /\ coinlore.marketData.price = Num(3000)
  /\ coinlore.marketData.marketCap = Num(300)
  /\ coinlore.marketData.currency = "EUR"

====
